---- MODULE Spec2Model ----
(***************************************************************************)
(* Model of the goldstone south/sonic interface server                     *)
(* (src/src/south/sonic/goldstone/south/sonic/interfaces.py): the change   *)
(* handlers, the commit pipeline that drives them (pre / validate / apply  *)
(* / revert / post), the reconcile run with its pending-task queue, and    *)
(* the operational-status resolver.                                        *)
(*                                                                         *)
(* Python values are modelled as strings: the booleans are the strings     *)
(* "True" and "False", None is NoVal.  An interface name is the sequence   *)
(* of its tokens, <<"Ethernet", "1", "_", "1">> for Ethernet1_1, so that   *)
(* endswith, "in", find and split act on the name as they do in the code.  *)
(***************************************************************************)
EXTENDS Integers, Sequences, FiniteSets, TLC

VARIABLES
    menu,           \* the leaves the client of this run edits: a set of <<ifname, leaf>>
    running,        \* the running datastore: interface name -> leaf -> value
    cfgdb,          \* sonic CONFIG_DB: interface name -> field -> value
    bcm,            \* last vendor (bcmcmd) setting: interface name -> attribute -> value
    portmap,        \* the usonic configMap in force: interface name -> <<numch, speed>>
    is_rebooting,   \* sonic.is_rebooting
    task_queue,     \* InterfaceServer.task_queue (pending reconcile coroutines)
    spc,            \* position of start(): "new", "reconcile", "serving", "crashed"
    cpc,            \* position of handle_tasks(): "off", "sleep", "await", "dead"
    runs,           \* the reconcile coroutines started and not finished
    exc,            \* the exception that ended a reconcile run (NoError: none did)
    snap,           \* the driver state when reconcile() was called once more
    tpc,            \* position of the commit callback: "idle", "apply", "post", "done"
    handlers,       \* the handlers of the batch in flight (one per change event)
    tidx,           \* index of the next handler to apply
    user,           \* the per-batch context dictionary
    applied,        \* indices of the handlers whose apply returned, in order
    reverted,       \* indices of the handlers whose revert was called, in order
    writes,         \* external writes issued by the batch in flight, in order
    result,         \* how the batch in flight ended ("" while it runs)
    before,         \* driver state when the batch in flight arrived
    candidate,      \* the configuration tree the batch in flight leads to
    oper,           \* raw oper_status per interface (sonic.get_oper_status)
    ufd,            \* the configured UFD groups (running data of the UFD model)
    resolved,       \* the answer of the last read of an oper-status, <<ifname, value>>,
                    \* <<>> once a raw status has changed since
    notif_if,       \* sonic.notif_if: the status kept per interface by event_handler
    notified,       \* the oper-status of the last notification sent per interface
    handled,        \* how the last feed message was handled, <<>> once a raw status
                    \* has changed since
    cli,            \* the command the CLI has committed last (NoCommand: none yet)
    reply,          \* the answer to the last read or rpc a client made
    counters,       \* the cumulative hardware counter of an interface
    counter_cache,  \* the counter baseline cache_counters() has kept
    vlan            \* the switched-vlan configuration, the VLAN_MEMBER table and
                    \* the batch of VLAN changes in flight

drvVars  == <<cfgdb, bcm, portmap>>
recVars  == <<is_rebooting, task_queue, spc, cpc, runs, exc, snap>>
txnVars  == <<tpc, handlers, tidx, user, applied, reverted, writes, result, before,
              candidate>>
operVars == <<oper, ufd, resolved, notif_if, notified, handled>>
rpcVars  == <<cli, reply, counters, counter_cache, vlan>>
vars     == <<menu, running, drvVars, recVars, txnVars, operVars, rpcVars>>

----------------------------------------------------------------------------
(* Bounds of the model *)

\* the longest batch of change events one commit delivers
MaxBatch == 3

\* the most UFD groups configured at once
MaxGroups == 1

\* the highest count the hardware counter reaches
MaxCount == 2

----------------------------------------------------------------------------
(* Values *)

NoVal == "none"

\* interface names, token by token
IfName(port, ch) == <<"Ethernet", port, "_", ch>>
E1_1 == IfName("1", "1")
E1_2 == IfName("1", "2")
E2_1 == IfName("2", "1")
E9_1 == IfName("9", "1")

\* the front-panel ports of the platform and the channel suffixes of a port
PortIds == <<"1", "2">>
Ports == {PortIds[k] : k \in 1..Len(PortIds)}
ChannelIds == <<"1", "2", "3", "4">>

\* every name the datastore or the driver can hold
AllIf == {IfName(p, ChannelIds[k]) : p \in Ports, k \in 1..4}

\* str.endswith(suffix), suffix given as tokens
EndsWith(name, suffix) ==
    /\ Len(name) >= Len(suffix)
    /\ SubSeq(name, Len(name) - Len(suffix) + 1, Len(name)) = suffix

\* "suffix in name": suffix occurs somewhere in name
Contains(name, part) ==
    \E i \in 1..(Len(name) - Len(part) + 1) :
        SubSeq(name, i, i + Len(part) - 1) = part

\* name.split("_")[0] + "_1"
ParentOf(name) ==
    LET cut == IF \E i \in 1..Len(name) : name[i] = "_"
               THEN (CHOOSE i \in 1..Len(name) :
                        name[i] = "_" /\ \A j \in 1..(i - 1) : name[j] # "_") - 1
               ELSE Len(name)
    IN  SubSeq(name, 1, cut) \o <<"_", "1">>

\* the leaves of an interface the handlers are bound to
Leaves == {"admin-status", "mtu", "fec", "speed", "enabled", "advertised-speeds",
           "num-channels", "channel-speed"}

\* two leaves no handler of this server writes and reconcile has no branch
\* for: loopback-mode of the config container, and a leaf of ethernet/config
\* other than mtu, fec, speed and interface-type
OtherLeaves == {"loopback-mode", "eth-unhandled"}

\* schema order of the leaves: the order in which a commit's changes arrive
LeafOrder == <<"admin-status", "mtu", "fec", "speed", "num-channels",
               "channel-speed", "enabled", "advertised-speeds">>

\* a leaf holds the sequence of its values: <<>> when unset, one value for a
\* leaf, the elements in order for a leaf-list
EmptyIfCfg == [l \in Leaves \cup OtherLeaves |-> <<>>]

\* a schema whose auto-negotiation is enabled by default
SchemaDefaultEnabled(key) ==
    CASE key = "admin-status" -> "DOWN"
      [] key = "mtu"          -> "9100"
      [] key = "fec"          -> "NONE"
      [] key = "enabled"      -> "true"
      [] OTHER                -> NoVal

\* the schema-declared defaults (what find_node(xpath).default() gives)
SchemaDefault(key) ==
    CASE key = "admin-status" -> "DOWN"
      [] key = "mtu"          -> "9100"
      [] key = "fec"          -> "NONE"
      [] key = "enabled"      -> "false"
      [] OTHER                -> NoVal

\* the schema type of a leaf
SchemaType(key) == IF key = "enabled" THEN "boolean" ELSE "string"

\* a get_default that finds no default
get_defaultNone(key) == NoVal

\* InterfaceServer.get_default: a boolean leaf gives a Python bool
get_default(key) ==
    IF SchemaType(key) = "boolean"
    THEN (IF SchemaDefault(key) = "true" THEN "True" ELSE "False")
    ELSE SchemaDefault(key)

\* Python truthiness of a value
Truthy(v) == v \notin {"False", NoVal, ""}

\* speed_yang_to_redis / speed_redis_to_yang of the sonic library
speed_yang_to_redis(v) ==
    CASE v = "SPEED_100G" -> "100000"
      [] v = "SPEED_50G"  -> "50000"
      [] v = "SPEED_40G"  -> "40000"
      [] v = "SPEED_25G"  -> "25000"
      [] v = "SPEED_20G"  -> "20000"
      [] v = "SPEED_10G"  -> "10000"
      [] OTHER            -> NoVal

speed_redis_to_yang(v) ==
    CASE v = "100000" -> "SPEED_100G"
      [] v = "50000"  -> "SPEED_50G"
      [] v = "40000"  -> "SPEED_40G"
      [] v = "25000"  -> "SPEED_25G"
      [] v = "20000"  -> "SPEED_20G"
      [] v = "10000"  -> "SPEED_10G"
      [] OTHER        -> NoVal

\* v.replace("SPEED_", "").lower()
SpeedLower(v) ==
    CASE v = "SPEED_100G" -> "100g"
      [] v = "SPEED_50G"  -> "50g"
      [] v = "SPEED_40G"  -> "40g"
      [] v = "SPEED_10G"  -> "10g"
      [] OTHER            -> v

\* ",".join(... for v in config): the joined string, element by element
RECURSIVE JoinSpeeds(_)
JoinSpeeds(config) ==
    IF config = <<>> THEN <<>>
    ELSE <<SpeedLower(Head(config))>> \o JoinSpeeds(Tail(config))

----------------------------------------------------------------------------
(* The driver: CONFIG_DB, the vendor command channel, the usonic configMap *)

CfgKeys == {"admin-status", "mtu", "fec", "speed", "description"}
BcmKeys == {"an", "adv", "if"}

EmptyCfgDb == [i \in AllIf |-> [k \in CfgKeys |-> NoVal]]
EmptyBcm   == [i \in AllIf |-> [k \in BcmKeys |-> <<NoVal>>]]
EmptyPortmap == [i \in AllIf |-> <<NoVal, NoVal>>]

\* sonic.set_config_db(ifname, key, value)
set_config_db(db, ifname, key, value) == [db EXCEPT ![ifname][key] = value]

\* sonic.k8s.run_bcmcmd_port(ifname, "<attr>=<value>"); the value is kept as the
\* sequence of its comma-separated parts, <<NoVal>> while never set
run_bcmcmd_port(b, ifname, attr, value) == [b EXCEPT ![ifname][attr] = value]

\* one external write, as the driver observes it
WriteOp(op, ifname, key, value) ==
    [op |-> op, ifname |-> ifname, key |-> key, value |-> value]

\* number of channels a configMap entry stands for
NumChOf(entry) ==
    CASE entry[1] = "2" -> 2
      [] entry[1] = "4" -> 4
      [] OTHER          -> 1

\* sonic.get_ifnames(): the interfaces of the port map in force, a port
\* broken out into n channels giving the names <port>_1 .. <port>_n
get_ifnames(pm) ==
    {n \in AllIf : \E k \in 1..NumChOf(pm[IfName(n[2], "1")]) : n[4] = ChannelIds[k]}

\* position of a name in the driver's listing
NameRank(n) ==
    10 * (CHOOSE k \in 1..Len(PortIds) : PortIds[k] = n[2]) +
    (CHOOSE k \in 1..Len(ChannelIds) : ChannelIds[k] = n[4])

RECURSIVE SortedNames(_)
SortedNames(S) ==
    IF S = {} THEN <<>>
    ELSE LET first == CHOOSE n \in S : \A m \in S : NameRank(n) <= NameRank(m)
         IN  <<first>> \o SortedNames(S \ {first})

----------------------------------------------------------------------------
(* The running datastore and the change events of a commit *)

\* the names the datastore can hold configuration for: the interfaces of the
\* platform and one name that is no interface
DsIf == AllIf \cup {E9_1}

EmptyTree == [i \in DsIf |-> EmptyIfCfg]

IsLeafList(leaf) == leaf = "advertised-speeds"

\* the interfaces a client edits, in datastore order
EditIfOrder == <<E1_1, E1_2, E9_1>>

\* the leaves a client edits, as <<ifname, leaf>>: a run of the model follows
\* a client that keeps to one of these sets
MenuConfigDb == {<<E1_1, "admin-status">>, <<E1_1, "mtu">>, <<E1_1, "enabled">>}
MenuSpeed    == {<<E1_1, "fec">>, <<E1_1, "speed">>, <<E1_2, "speed">>,
                 <<E9_1, "admin-status">>}
MenuBreakout == {<<E1_1, "num-channels">>, <<E1_1, "channel-speed">>,
                 <<E1_1, "advertised-speeds">>, <<E1_1, "admin-status">>}
MenuSubBreakout == {<<E1_2, "num-channels">>, <<E1_2, "channel-speed">>,
                    <<E1_1, "admin-status">>}
Menus == {MenuConfigDb, MenuSpeed, MenuBreakout, MenuSubBreakout}

\* the values a client sets a leaf to (NoVal: the leaf is deleted)
EditValues(leaf) ==
    CASE leaf = "admin-status"      -> {"UP", NoVal}
      [] leaf = "mtu"               -> {"1500", NoVal}
      [] leaf = "fec"               -> {"RS", NoVal}
      [] leaf = "speed"             -> {"SPEED_40G", "SPEED_10G", NoVal}
      [] leaf = "enabled"           -> {"true", NoVal}
      [] leaf = "advertised-speeds" -> {"SPEED_40G", "SPEED_10G", NoVal}
      [] leaf = "num-channels"      -> {"2", NoVal}
      [] leaf = "channel-speed"     -> {"SPEED_50G", NoVal}

\* one edit of a candidate configuration: position of the interface, position
\* of the leaf, the value
Edits ==
    {e \in [i : 1..Len(EditIfOrder), l : 1..Len(LeafOrder),
            value : UNION {EditValues(LeafOrder[l]) : l \in 1..Len(LeafOrder)}] :
        /\ <<EditIfOrder[e.i], LeafOrder[e.l]>> \in UNION Menus
        /\ e.value \in EditValues(LeafOrder[e.l])}

EditIf(e) == EditIfOrder[e.i]
EditLeaf(e) == LeafOrder[e.l]

\* the change events the datastore derives from one edit against a tree
ChangeEvent(ifname, leaf, type, value) ==
    [ifname |-> ifname, leaf |-> leaf, type |-> type, value |-> value]

ChangesOf(tree, e) ==
    LET old == tree[EditIf(e)][EditLeaf(e)]
    IN  IF e.value = NoVal
        THEN [k \in 1..Len(old) |->
                 ChangeEvent(EditIf(e), EditLeaf(e), "deleted", old[k])]
        ELSE IF IsLeafList(EditLeaf(e))
        THEN (IF \E k \in 1..Len(old) : old[k] = e.value THEN <<>>
              ELSE <<ChangeEvent(EditIf(e), EditLeaf(e), "created", e.value)>>)
        ELSE IF old = <<>>
        THEN <<ChangeEvent(EditIf(e), EditLeaf(e), "created", e.value)>>
        ELSE IF old = <<e.value>> THEN <<>>
        ELSE <<ChangeEvent(EditIf(e), EditLeaf(e), "modified", e.value)>>

\* the tree after one edit
ApplyEdit(tree, e) ==
    LET old == tree[EditIf(e)][EditLeaf(e)]
        new == IF e.value = NoVal THEN <<>>
               ELSE IF IsLeafList(EditLeaf(e))
               THEN (IF \E k \in 1..Len(old) : old[k] = e.value THEN old
                     ELSE Append(old, e.value))
               ELSE <<e.value>>
    IN  [tree EXCEPT ![EditIf(e)][EditLeaf(e)] = new]

\* a set of edits in datastore order (interface, then leaf)
EditRank(e) == 100 * e.i + e.l

RECURSIVE SortedEdits(_)
SortedEdits(S) ==
    IF S = {} THEN <<>>
    ELSE LET first == CHOOSE e \in S : \A f \in S : EditRank(e) <= EditRank(f)
         IN  <<first>> \o SortedEdits(S \ {first})

\* the candidate configurations a client commits: up to MaxBatch edits of
\* distinct leaves
RECURSIVE EditSetsUpTo(_)
EditSetsUpTo(n) ==
    IF n = 0 THEN {{}}
    ELSE LET prev == EditSetsUpTo(n - 1)
         IN  prev \cup
             {S \cup {e} : S \in prev,
                           e \in {f \in Edits : TRUE}} 

EditSets ==
    {S \in EditSetsUpTo(MaxBatch) :
        /\ S # {}
        /\ \A e, f \in S : EditRank(e) = EditRank(f) => e = f}

RECURSIVE ChangesOfAll(_, _)
ChangesOfAll(tree, es) ==
    IF es = <<>> THEN <<>>
    ELSE ChangesOf(tree, Head(es)) \o ChangesOfAll(tree, Tail(es))

RECURSIVE ApplyEdits(_, _)
ApplyEdits(tree, es) ==
    IF es = <<>> THEN tree
    ELSE ApplyEdits(ApplyEdit(tree, Head(es)), Tail(es))

----------------------------------------------------------------------------
(* The change handlers *)

\* InterfaceServer.handlers: the handler class bound to a leaf
HandlerOf(leaf) ==
    CASE leaf = "admin-status"      -> "AdminStatusHandler"
      [] leaf = "mtu"               -> "MTUHandler"
      [] leaf = "fec"               -> "FECHandler"
      [] leaf = "speed"             -> "SpeedHandler"
      [] leaf = "enabled"           -> "AutoNegotiateHandler"
      [] leaf = "advertised-speeds" -> "AutoNegotiateAdvertisedSpeedsHandler"
      [] leaf = "num-channels"      -> "BreakoutHandler"
      [] leaf = "channel-speed"     -> "BreakoutHandler"

NoError == [cls |-> "", msg |-> ""]

\* no CLI command yet, and no answer to show
NoCommand == [cmd |-> "", ifname |-> <<>>]
NoReply == [op |-> ""]
Error(cls, msg) == [cls |-> cls, msg |-> msg]

\* IfChangeHandler.__init__: the error of constructing a handler for an event
IfChangeHandlerInit(ev, pm) ==
    IF ev.ifname \notin get_ifnames(pm)
    THEN Error("InvalArgError", "Invalid Interface name")
    ELSE NoError

\* IfChangeHandler.valid_speeds
valid_speeds(ifname) ==
    IF ~EndsWith(ifname, <<"_", "1">>) THEN {} ELSE {"40000", "100000"}

\* the value libyang hands to Python for a leaf: a boolean leaf gives a bool
ChangeValue(ev) ==
    IF SchemaType(ev.leaf) = "boolean"
    THEN (IF ev.value = "true" THEN "True" ELSE "False")
    ELSE ev.value

\* InterfaceServer.is_ufd_port
is_ufd_port(ifname, ufd_list) ==
    \E g \in 1..Len(ufd_list) :
        \/ \E k \in 1..Len(ufd_list[g].uplink) : ufd_list[g].uplink[k] = ifname
        \/ \E k \in 1..Len(ufd_list[g].downlink) : ufd_list[g].downlink[k] = ifname

\* the values the message of SpeedHandler.validate's error is built from
\* (lines 126-128): the value of the change and the candidates
SpeedErrorMessage(ev) ==
    [value |-> ev.value,
     candidates |-> {speed_redis_to_yang(v) : v \in valid_speeds(ev.ifname)}]

\* SpeedHandler.validate
SpeedValidate(ev) ==
    IF /\ ev.type \in {"created", "modified"}
       /\ speed_yang_to_redis(ev.value) \notin valid_speeds(ev.ifname)
    THEN Error("InvalArgError", "Invalid speed")
    ELSE NoError

\* AutoNegotiateAdvertisedSpeedsHandler.validate: the message of the error
\* reads the undefined name "change", so a NameError is what is raised
AdvSpeedsValidate(ev) ==
    IF /\ ev.type \in {"created", "modified"}
       /\ speed_yang_to_redis(ev.value) \notin valid_speeds(ev.ifname)
    THEN Error("NameError", "name 'change' is not defined")
    ELSE NoError

\* a breakout validation that accepts any interface
BreakoutValidateAnyInterface(ev, cache, ufd_list) ==
    IF ev.type \in {"created", "modified"}
    THEN IF is_ufd_port(ev.ifname, ufd_list)
         THEN Error("InvalArgError", "Breakout cannot be configured on the interface that is part of UFD")
         ELSE IF \/ cache[ev.ifname]["num-channels"] = <<>>
                 \/ cache[ev.ifname]["channel-speed"] = <<>>
         THEN Error("InvalArgError", "both num-channels and channel-speed must be set at once")
         ELSE NoError
    ELSE NoError

\* a breakout validation that does not look at the UFD groups
BreakoutValidateNoUfd(ev, cache, ufd_list) ==
    IF ev.type \in {"created", "modified"}
    THEN IF ~Contains(ev.ifname, <<"_", "1">>)
         THEN Error("InvalArgError", "breakout cannot be configured on a sub-interface")
         ELSE IF \/ cache[ev.ifname]["num-channels"] = <<>>
                 \/ cache[ev.ifname]["channel-speed"] = <<>>
         THEN Error("InvalArgError", "both num-channels and channel-speed must be set at once")
         ELSE NoError
    ELSE NoError

\* BreakoutHandler.validate, cache being the tree the batch leads to
BreakoutValidate(ev, cache, ufd_list) ==
    IF ev.type \in {"created", "modified"}
    THEN IF ~Contains(ev.ifname, <<"_", "1">>)
         THEN Error("InvalArgError", "breakout cannot be configured on a sub-interface")
         ELSE IF is_ufd_port(ev.ifname, ufd_list)
         THEN Error("InvalArgError", "Breakout cannot be configured on the interface that is part of UFD")
         ELSE IF \/ cache[ev.ifname]["num-channels"] = <<>>
                 \/ cache[ev.ifname]["channel-speed"] = <<>>
         THEN Error("InvalArgError", "both num-channels and channel-speed must be set at once")
         ELSE NoError
    ELSE NoError

\* handler.validate(user): the error it raises, NoError when it returns
Validate(ev, cache, ufd_list) ==
    CASE HandlerOf(ev.leaf) = "SpeedHandler" -> SpeedValidate(ev)
      [] HandlerOf(ev.leaf) = "AutoNegotiateAdvertisedSpeedsHandler" -> AdvSpeedsValidate(ev)
      [] HandlerOf(ev.leaf) = "BreakoutHandler" -> BreakoutValidate(ev, cache, ufd_list)
      [] OTHER -> NoError

\* the per-batch context a commit starts with
EmptyUser == [update_sonic |-> FALSE, needs_adv_speed_config |-> {}, cache |-> FALSE]

\* what an apply works on and leaves behind
World(db, b, u, w) == [cfgdb |-> db, bcm |-> b, user |-> u, writes |-> w]

\* a validate that writes: SpeedHandler.validate setting the config DB
ValidateEffectsWrites(ev, w) ==
    IF HandlerOf(ev.leaf) = "BreakoutHandler" THEN [w EXCEPT !.user.cache = TRUE]
    ELSE IF HandlerOf(ev.leaf) = "SpeedHandler"
    THEN [w EXCEPT !.cfgdb = set_config_db(w.cfgdb, ev.ifname, "speed", ev.value),
                   !.writes = Append(w.writes,
                                WriteOp("set_config_db", ev.ifname, "speed", ev.value))]
    ELSE w

\* handler.validate(user): what it leaves behind. BreakoutHandler.validate
\* builds the cached tree (setup_cache); no validate writes to the driver
ValidateEffects(ev, w) ==
    IF HandlerOf(ev.leaf) = "BreakoutHandler" THEN [w EXCEPT !.user.cache = TRUE] ELSE w

\* the value a config-DB handler writes
ValueOrDefault(ev, key) ==
    IF ev.type \in {"created", "modified"} THEN ChangeValue(ev) ELSE get_default(key)

\* an apply that writes its value to the field of every interface
ConfigDbApplyEveryInterface(ev, w) ==
    LET value == ValueOrDefault(ev, ev.leaf)
    IN  [w EXCEPT !.cfgdb = [i \in AllIf |-> [w.cfgdb[i] EXCEPT ![ev.leaf] = value]],
                  !.writes = Append(w.writes,
                                WriteOp("set_config_db", ev.ifname, ev.leaf, value))]

\* AdminStatusHandler.apply, MTUHandler.apply, FECHandler.apply
ConfigDbApply(ev, w) ==
    LET value == ValueOrDefault(ev, ev.leaf)
    IN  [w EXCEPT !.cfgdb = set_config_db(w.cfgdb, ev.ifname, ev.leaf, value),
                  !.writes = Append(w.writes,
                                WriteOp("set_config_db", ev.ifname, ev.leaf, value))]

\* SpeedHandler.apply up to the await: the config-DB write
SpeedApplySet(ev, w) ==
    LET value == IF ev.type \in {"created", "modified"} THEN ev.value ELSE "100G"
    IN  [w EXCEPT !.cfgdb = set_config_db(w.cfgdb, ev.ifname, "speed", value),
                  !.writes = Append(w.writes,
                                WriteOp("set_config_db", ev.ifname, "speed", value))]

\* SpeedHandler.apply: the write, then update_bcm_portmap()
SpeedApply(ev, w) ==
    LET w1 == SpeedApplySet(ev, w)
    IN  [w1 EXCEPT !.writes = Append(w1.writes,
                                WriteOp("update_bcm_portmap", ev.ifname, "", ""))]

\* AutoNegotiateHandler.apply
AutoNegotiateApply(ev, w) ==
    LET v == ValueOrDefault(ev, "enabled")
        value == IF Truthy(v) THEN "yes" ELSE "no"
    IN  [w EXCEPT !.bcm = run_bcmcmd_port(w.bcm, ev.ifname, "an", <<value>>),
                  !.writes = Append(w.writes,
                                WriteOp("run_bcmcmd_port", ev.ifname, "an", value))]

\* an apply that pushes the advertised speeds itself, event by event
AdvSpeedsApplyPushes(ev, w) ==
    [w EXCEPT !.user.cache = TRUE,
              !.bcm = run_bcmcmd_port(w.bcm, ev.ifname, "adv", <<SpeedLower(ev.value)>>),
              !.writes = Append(w.writes, WriteOp("run_bcmcmd_port", ev.ifname, "adv",
                                                  <<SpeedLower(ev.value)>>))]

\* AutoNegotiateAdvertisedSpeedsHandler.apply
AdvSpeedsApply(ev, w) ==
    [w EXCEPT !.user.cache = TRUE,
              !.user.needs_adv_speed_config = @ \cup {ev.ifname}]

\* BreakoutHandler.apply, tree being the running data
BreakoutApply(ev, w, tree) ==
    IF ev.type = "deleted"
    THEN (IF tree[ev.ifname][ev.leaf] # <<>>
          THEN [w EXCEPT !.user.update_sonic = TRUE]
          ELSE w)
    ELSE [w EXCEPT !.user.update_sonic = TRUE]

\* handler.apply(user) when it returns
Apply(ev, w, tree) ==
    CASE HandlerOf(ev.leaf) \in {"AdminStatusHandler", "MTUHandler", "FECHandler"}
            -> ConfigDbApply(ev, w)
      [] HandlerOf(ev.leaf) = "SpeedHandler" -> SpeedApply(ev, w)
      [] HandlerOf(ev.leaf) = "AutoNegotiateHandler" -> AutoNegotiateApply(ev, w)
      [] HandlerOf(ev.leaf) = "AutoNegotiateAdvertisedSpeedsHandler" -> AdvSpeedsApply(ev, w)
      [] HandlerOf(ev.leaf) = "BreakoutHandler" -> BreakoutApply(ev, w, tree)

\* the handlers whose apply makes an external call, which may raise
CallsOut(ev) ==
    HandlerOf(ev.leaf) \in {"AdminStatusHandler", "MTUHandler", "FECHandler",
                            "SpeedHandler", "AutoNegotiateHandler"}

\* handler.apply(user) when its external call raises: SpeedHandler has written
\* the config DB by then, the others have changed nothing
ApplyRaises(ev, w) ==
    IF HandlerOf(ev.leaf) = "SpeedHandler" THEN SpeedApplySet(ev, w) ELSE w

\* handler.revert(user): AdminStatusHandler.revert is "pass", the other
\* handlers inherit the base class's empty revert
Revert(ev, w) == w

\* revert of the handlers idxs (in that order) of a batch
RECURSIVE RevertAll(_, _, _)
RevertAll(hs, idxs, w) ==
    IF idxs = <<>> THEN w
    ELSE RevertAll(hs, Tail(idxs), Revert(hs[Head(idxs)], w))

----------------------------------------------------------------------------
(* The commit pipeline: pre, validate, apply, revert, post *)

\* a pre that never refuses
preNeverLocks(rebooting) == NoError

\* InterfaceServer.pre: the error it raises, NoError when it returns
pre(rebooting) ==
    IF rebooting THEN Error("LockedError", "uSONiC is rebooting") ELSE NoError

\* the driver state a batch can change, the busy flag it arrived under and
\* whether a reconcile was queued or running then
DriverState == [cfgdb |-> cfgdb, bcm |-> bcm, portmap |-> portmap,
                queued |-> Len(task_queue), is_rebooting |-> is_rebooting,
                pending |-> task_queue # <<>> \/ runs # <<>>]

\* what "before" holds while no batch is in flight
NoDriverState == [cfgdb |-> EmptyCfgDb, bcm |-> EmptyBcm, portmap |-> EmptyPortmap,
                  queued |-> 0, is_rebooting |-> FALSE, pending |-> FALSE]

\* construction and validation of the handlers of evs, in event order: the
\* first error (NoError when every handler validates) and what the validates
\* run so far leave behind
RECURSIVE ValidateAll(_, _, _, _, _)
ValidateAll(evs, cache, pm, ufd_list, w) ==
    IF evs = <<>> THEN [error |-> NoError, world |-> w]
    ELSE LET built == IfChangeHandlerInit(Head(evs), pm)
             valid == Validate(Head(evs), cache, ufd_list)
             w1    == ValidateEffects(Head(evs), w)
         IN  IF built # NoError THEN [error |-> built, world |-> w]
             ELSE IF valid # NoError THEN [error |-> valid, world |-> w1]
             ELSE ValidateAll(Tail(evs), cache, pm, ufd_list, w1)

Reverse(s) == [k \in 1..Len(s) |-> s[Len(s) + 1 - k]]

\* the change callback for the edits S of a commit made by the CLI command
\* command (NoCommand: by another client): the pre-check, then construction
\* and validation of one handler per change event; the batch is refused or
\* goes on to its applies
Batch(S, command) ==
    LET es  == SortedEdits(S)
        evs == ChangesOfAll(running, es)
        tree == ApplyEdits(running, es)
        locked == pre(is_rebooting)
        v == ValidateAll(evs, tree, portmap, ufd, World(cfgdb, bcm, EmptyUser, <<>>))
    IN  /\ spc = "serving"
        /\ tpc = "idle"
        /\ \A e \in S : ChangesOf(running, e) # <<>>
        /\ cli' = command
        /\ before' = DriverState
        /\ candidate' = tree
        /\ applied' = <<>>
        /\ reverted' = <<>>
        /\ tidx' = 1
        /\ IF locked # NoError
           THEN /\ handlers' = <<>>
                /\ user' = EmptyUser
                /\ writes' = <<>>
                /\ result' = locked
                /\ tpc' = "done"
                /\ UNCHANGED <<cfgdb, bcm>>
           ELSE /\ handlers' = evs
                /\ user' = v.world.user
                /\ writes' = v.world.writes
                /\ cfgdb' = v.world.cfgdb
                /\ bcm' = v.world.bcm
                /\ result' = v.error
                /\ tpc' = IF v.error # NoError THEN "done" ELSE "apply"
        /\ UNCHANGED <<menu, vlan, reply, counters, counter_cache, running, portmap, recVars,
                       operVars>>

\* a commit of a client that keeps to its menu arrives
Commit(S) ==
    /\ spc = "serving"
    /\ tpc = "idle"
    /\ \A e \in S : <<EditIf(e), EditLeaf(e)>> \in menu
    /\ Batch(S, NoCommand)

\* the apply of the next handler returns
ApplyReturns ==
    LET ev == handlers[tidx]
        w  == Apply(ev, World(cfgdb, bcm, user, writes), running)
    IN  /\ tpc = "apply"
        /\ tidx <= Len(handlers)
        /\ cfgdb' = w.cfgdb
        /\ bcm' = w.bcm
        /\ user' = w.user
        /\ writes' = w.writes
        /\ applied' = Append(applied, tidx)
        /\ tidx' = tidx + 1
        /\ tpc' = IF tidx = Len(handlers) THEN "post" ELSE "apply"
        /\ UNCHANGED <<menu, rpcVars, running, portmap, recVars, operVars, handlers, reverted,
                       result, before, candidate>>

\* an apply failure that reverts the applied handlers first to last
ApplyFailsForwardRevert ==
    LET ev == handlers[tidx]
        w0 == ApplyRaises(ev, World(cfgdb, bcm, user, writes))
        w  == RevertAll(handlers, applied, w0)
    IN  /\ tpc = "apply"
        /\ tidx <= Len(handlers)
        /\ CallsOut(ev)
        /\ cfgdb' = w.cfgdb
        /\ bcm' = w.bcm
        /\ user' = w.user
        /\ writes' = w.writes
        /\ reverted' = applied
        /\ result' = Error("ApplyFailure", "apply raised")
        /\ tpc' = "done"
        /\ UNCHANGED <<menu, rpcVars, running, portmap, recVars, operVars, handlers, tidx,
                       applied, before, candidate>>

\* the apply of the next handler raises: revert of the handlers applied so
\* far, last first, and the failure is surfaced
ApplyFails ==
    LET ev == handlers[tidx]
        w0 == ApplyRaises(ev, World(cfgdb, bcm, user, writes))
        w  == RevertAll(handlers, Reverse(applied), w0)
    IN  /\ tpc = "apply"
        /\ tidx <= Len(handlers)
        /\ CallsOut(ev)
        /\ cfgdb' = w.cfgdb
        /\ bcm' = w.bcm
        /\ user' = w.user
        /\ writes' = w.writes
        /\ reverted' = Reverse(applied)
        /\ result' = Error("ApplyFailure", "apply raised")
        /\ tpc' = "done"
        /\ UNCHANGED <<menu, rpcVars, running, portmap, recVars, operVars, handlers, tidx,
                       applied, before, candidate>>

\* the advertised-speed pushes of post, for the interfaces names in order
RECURSIVE PushAdvSpeeds(_, _, _)
PushAdvSpeeds(names, cache, w) ==
    IF names = <<>> THEN w
    ELSE LET ifname == Head(names)
             speeds == JoinSpeeds(cache[ifname]["advertised-speeds"])
         IN  PushAdvSpeeds(Tail(names), cache,
                 [w EXCEPT !.bcm = run_bcmcmd_port(w.bcm, ifname, "adv", speeds),
                           !.writes = Append(w.writes,
                                WriteOp("run_bcmcmd_port", ifname, "adv", speeds))])

\* a post that queues the reconcile without raising the busy flag
postNoFlag(u, cache, w, rebooting, queue) ==
    IF u.update_sonic
    THEN [world |-> [w EXCEPT !.writes = Append(w.writes,
                                   WriteOp("reconcile", <<>>, "", ""))],
          is_rebooting |-> rebooting,
          task_queue |-> Append(queue, "reconcile")]
    ELSE [world |-> PushAdvSpeeds(SortedNames(u.needs_adv_speed_config), cache, w),
          is_rebooting |-> rebooting,
          task_queue |-> queue]

\* a post that does not return after queueing the reconcile
postNoReturn(u, cache, w, rebooting, queue) ==
    LET w1 == IF u.update_sonic
              THEN [w EXCEPT !.writes = Append(w.writes,
                                   WriteOp("reconcile", <<>>, "", ""))]
              ELSE w
    IN  [world |-> PushAdvSpeeds(SortedNames(u.needs_adv_speed_config), cache, w1),
         is_rebooting |-> rebooting \/ u.update_sonic,
         task_queue |-> IF u.update_sonic THEN Append(queue, "reconcile") ELSE queue]

\* InterfaceServer.post: what it leaves of the driver and of the task queue
post(u, cache, w, rebooting, queue) ==
    IF u.update_sonic
    THEN [world |-> [w EXCEPT !.writes = Append(w.writes,
                                   WriteOp("reconcile", <<>>, "", ""))],
          is_rebooting |-> TRUE,
          task_queue |-> Append(queue, "reconcile")]
    ELSE [world |-> PushAdvSpeeds(SortedNames(u.needs_adv_speed_config), cache, w),
          is_rebooting |-> rebooting,
          task_queue |-> queue]

\* the post phase, after which the datastore holds the committed tree
Post ==
    LET p == post(user, candidate, World(cfgdb, bcm, user, writes),
                  is_rebooting, task_queue)
    IN  /\ tpc = "post"
        /\ cfgdb' = p.world.cfgdb
        /\ bcm' = p.world.bcm
        /\ writes' = p.world.writes
        /\ is_rebooting' = p.is_rebooting
        /\ task_queue' = p.task_queue
        /\ running' = candidate
        /\ result' = Error("", "ok")
        /\ tpc' = "done"
        /\ UNCHANGED <<menu, rpcVars, portmap, spc, cpc, runs, exc, snap, operVars, handlers, tidx, user,
                       applied, reverted, before, candidate>>

\* the callback has returned: the context of the batch is discarded
Return ==
    /\ tpc = "done"
    /\ tpc' = "idle"
    /\ handlers' = <<>>
    /\ tidx' = 1
    /\ user' = EmptyUser
    /\ applied' = <<>>
    /\ reverted' = <<>>
    /\ writes' = <<>>
    /\ result' = NoError
    /\ before' = NoDriverState
    /\ candidate' = EmptyTree
    /\ UNCHANGED <<menu, rpcVars, running, drvVars, recVars, operVars>>

----------------------------------------------------------------------------
(* The reconcile run, start() and the task loop *)

\* InterfaceServer.breakout_update_usonic: the port map derived from the
\* breakout leaves of the configuration
BreakoutMap(tree) ==
    [i \in AllIf |->
        LET numch == tree[i]["num-channels"]
            speed == tree[i]["channel-speed"]
        IN  <<IF numch = <<>> THEN NoVal ELSE numch[1],
              IF speed = <<>> THEN NoVal ELSE speed_yang_to_redis(speed[1])>>]

\* sonic.k8s.update_usonic_config(intfs): whether the configMap changed
update_usonic_config(pm, intfs) == intfs # pm

\* sonic.cache_counters(): the baseline becomes the counters as they stand
cache_counters(c) == c

\* sonic.k8s.get_default_iftype(ifname)
get_default_iftype(ifname) == "default-iftype"

\* the cooperating servers whose reconcile hook a run calls (self.servers)
Servers == <<"vlan", "portchannel">>

\* the leaves of order (schema order) that cfg holds a value for: the keys of
\* the dictionary get_running_data gives for a container
RECURSIVE Present(_, _)
Present(cfg, order) ==
    IF order = <<>> THEN <<>>
    ELSE (IF cfg[Head(order)] = <<>> THEN <<>> ELSE <<Head(order)>>)
         \o Present(cfg, Tail(order))

\* "key in dict"
HasKey(keys, key) == \E j \in 1..Len(keys) : keys[j] = key

\* dict[key] = default when the key is missing: the key goes last
WithDefault(keys, key) == IF HasKey(keys, key) THEN keys ELSE Append(keys, key)

\* reconcile, lines 373-387: the auto-negotiate pushes of one interface, in
\* the order of the dictionary
ReconcileAutoNeg(ifname, cfg) ==
    LET keys == WithDefault(Present(cfg, <<"enabled", "advertised-speeds">>), "enabled")
        enabled == IF cfg["enabled"] = <<>>
                   THEN (IF get_default("enabled") = "true" THEN "True" ELSE "False")
                   ELSE (IF cfg["enabled"][1] = "true" THEN "True" ELSE "False")
        op(key) == IF key = "enabled"
                   THEN WriteOp("run_bcmcmd_port", ifname, "an",
                                <<IF Truthy(enabled) THEN "yes" ELSE "no">>)
                   ELSE WriteOp("run_bcmcmd_port", ifname, "adv",
                                JoinSpeeds(cfg["advertised-speeds"]))
    IN  [j \in 1..Len(keys) |-> op(keys[j])]

\* reconcile, lines 389-407: the ethernet pushes of one interface. A key with
\* no branch of its own reaches the logger.warn of line 407, whose message
\* reads config[key] from the dictionary bound at line 360 or 409, which has
\* no such key: a KeyError
ReconcileEthernet(ifname, cfg) ==
    LET keys0 == Present(cfg, <<"mtu", "fec", "speed", "eth-unhandled">>)
        keys1 == WithDefault(WithDefault(keys0, "mtu"), "fec")
        keys  == IF Truthy(get_default_iftype(ifname))
                 THEN Append(keys1, "interface-type") ELSE keys1
        op(key) ==
            CASE key = "interface-type" ->
                    WriteOp("run_bcmcmd_port", ifname, "if", <<get_default_iftype(ifname)>>)
              [] key \in {"mtu", "fec", "speed"} ->
                    WriteOp("set_config_db", ifname, key,
                            IF cfg[key] = <<>> THEN get_default(key) ELSE cfg[key][1])
              [] OTHER -> WriteOp("KeyError", ifname, key, "")
    IN  [j \in 1..Len(keys) |-> op(keys[j])]

\* reconcile, lines 409-421: the interface config pushes of one interface
ReconcileConfig(ifname, cfg) ==
    LET keys == WithDefault(Present(cfg, <<"admin-status", "loopback-mode">>),
                            "admin-status")
        op(key) ==
            IF key = "admin-status"
            THEN WriteOp("set_config_db", ifname, key,
                         IF cfg[key] = <<>> THEN get_default(key) ELSE cfg[key][1])
            ELSE WriteOp("warn", ifname, key, cfg[key][1])
    IN  [j \in 1..Len(keys) |-> op(keys[j])]

\* the calls up to and with the first that raises
RECURSIVE UpToRaise(_)
UpToRaise(ops) ==
    IF ops = <<>> THEN <<>>
    ELSE IF Head(ops).op = "KeyError" THEN <<Head(ops)>>
    ELSE <<Head(ops)>> \o UpToRaise(Tail(ops))

\* reconcile, lines 368-421: the calls of the loop body for one interface
ReconcileOps(ifname, cfg) ==
    UpToRaise(ReconcileAutoNeg(ifname, cfg) \o ReconcileEthernet(ifname, cfg)
              \o ReconcileConfig(ifname, cfg))

\* whether the loop body raises for the interface
ReconcileKeyError(ifname, cfg) ==
    LET ops == ReconcileOps(ifname, cfg)
    IN  ops # <<>> /\ ops[Len(ops)].op = "KeyError"

\* what the calls ops leave of the config DB and of the vendor settings
RECURSIVE ApplyOps(_, _, _)
ApplyOps(ops, db, b) ==
    IF ops = <<>> THEN [cfgdb |-> db, bcm |-> b]
    ELSE LET o == Head(ops)
         IN  CASE o.op = "set_config_db" ->
                     ApplyOps(Tail(ops), set_config_db(db, o.ifname, o.key, o.value), b)
               [] o.op = "run_bcmcmd_port" ->
                     ApplyOps(Tail(ops), db, run_bcmcmd_port(b, o.ifname, o.key, o.value))
               [] OTHER -> ApplyOps(Tail(ops), db, b)

\* a loop body that flips the admin-status it finds in the config DB
ReconcileInterfaceToggles(ifname, tree, db, b) ==
    [cfgdb |-> set_config_db(db, ifname, "admin-status",
                             IF db[ifname]["admin-status"] = "UP" THEN "DOWN" ELSE "UP"),
     bcm |-> b]

\* reconcile, lines 368-421: the body of the loop for one interface
ReconcileInterface(ifname, tree, db, b) ==
    ApplyOps(ReconcileOps(ifname, tree[ifname]), db, b)

\* a reconcile() coroutine: who awaits it, where it is, the interfaces (then
\* the servers) it has yet to handle, the external calls it has made
Run(by, pc, todo, log) == [by |-> by, pc |-> pc, todo |-> todo, log |-> log]

RemoveAt(s, k) == [j \in 1..(Len(s) - 1) |-> IF j < k THEN s[j] ELSE s[j + 1]]

\* what the awaiting caller of a run does when the run returns
Resumed(by, field) ==
    CASE by = "start" /\ field = "spc" -> "serving"
      [] by = "start" /\ field = "cpc" -> "sleep"
      [] by = "task"  /\ field = "spc" -> spc
      [] by = "task"  /\ field = "cpc" -> "sleep"
      [] by = "again" /\ field = "spc" -> "twice"
      [] by = "again" /\ field = "cpc" -> cpc

\* what the awaiting caller of a run does when the run raises: start() fails,
\* handle_tasks() ends with the exception
Raised(by, field) ==
    CASE by = "start" /\ field = "spc" -> "crashed"
      [] by = "start" /\ field = "cpc" -> cpc
      [] by = "task"  /\ field = "spc" -> spc
      [] by = "task"  /\ field = "cpc" -> "dead"
      [] by = "again" /\ field = "spc" -> "crashed"
      [] by = "again" /\ field = "cpc" -> cpc

\* InterfaceServer.start: await self.reconcile()
Start ==
    /\ spc = "new"
    /\ spc' = "reconcile"
    /\ runs' = Append(runs, Run("start", "begin", <<>>, <<>>))
    /\ UNCHANGED <<menu, rpcVars, running, drvVars, is_rebooting, task_queue, cpc, exc, snap, txnVars,
                   operVars>>

\* handle_tasks: whether the loop is at its queue poll
handle_tasks_polls == cpc = "sleep"

\* a task loop that starts the task and does not await it
HandleTasksNoAwait ==
    /\ handle_tasks_polls
    /\ task_queue # <<>>
    /\ task_queue' = Tail(task_queue)
    /\ runs' = Append(runs, Run("task", "begin", <<>>, <<>>))
    /\ cpc' = "sleep"
    /\ UNCHANGED <<menu, rpcVars, running, drvVars, is_rebooting, spc, exc, snap, txnVars, operVars>>

\* InterfaceServer.handle_tasks: a queued task is taken and awaited
HandleTasks ==
    /\ handle_tasks_polls
    /\ task_queue # <<>>
    /\ task_queue' = Tail(task_queue)
    /\ runs' = Append(runs, Run("task", "begin", <<>>, <<>>))
    /\ cpc' = "await"
    /\ UNCHANGED <<menu, rpcVars, running, drvVars, is_rebooting, spc, exc, snap, txnVars, operVars>>

\* a reconcile that restarts the forwarding plane whatever the port map
ReconcileBeginAlwaysRestarts(r) ==
    /\ runs[r].pc = "begin"
    /\ is_rebooting' = TRUE
    /\ portmap' = BreakoutMap(running)
    /\ runs' = [runs EXCEPT ![r] =
                   Run(@.by, "wait", <<>>,
                       <<WriteOp("update_usonic_config", <<>>, "", ""),
                         WriteOp("restart", <<>>, "", "")>>)]
    /\ UNCHANGED <<menu, rpcVars, running, cfgdb, bcm, task_queue, spc, cpc, exc, snap, txnVars,
                   operVars>>

\* reconcile, lines 358-365, with breakout_update_usonic: the flag, the port
\* map, then the restart or the counter snapshot
ReconcileBegin(r) ==
    LET intfs == BreakoutMap(running)
        is_updated == update_usonic_config(portmap, intfs)
        call == WriteOp("update_usonic_config", <<>>, "", "")
    IN  /\ runs[r].pc = "begin"
        /\ is_rebooting' = TRUE
        /\ portmap' = intfs
        /\ runs' = [runs EXCEPT ![r] =
                       IF is_updated
                       THEN Run(@.by, "wait", <<>>,
                                <<call, WriteOp("restart", <<>>, "", "")>>)
                       ELSE Run(@.by, "push", SortedNames(get_ifnames(intfs)),
                                <<call, WriteOp("cache_counters", <<>>, "", "")>>)]
        /\ counter_cache' = IF is_updated THEN counter_cache ELSE cache_counters(counters)
        /\ UNCHANGED <<menu, vlan, cli, reply, counters, running, cfgdb, bcm, task_queue, spc, cpc,
                       exc, snap, txnVars, operVars>>

\* reconcile, line 363: the forwarding plane reports ready
ReconcileWaitReady(r) ==
    /\ runs[r].pc = "wait"
    /\ runs' = [runs EXCEPT ![r] =
                   Run(@.by, "push", SortedNames(get_ifnames(portmap)),
                       Append(@.log, WriteOp("wait", <<>>, "", "")))]
    /\ UNCHANGED <<menu, rpcVars, running, drvVars, is_rebooting, task_queue, spc, cpc, exc, snap,
                   txnVars, operVars>>

\* reconcile, lines 368-421: the pushes of the next interface; the KeyError of
\* line 407 leaves reconcile() as any exception does
ReconcilePush(r) ==
    LET ifname == Head(runs[r].todo)
        ops == ReconcileOps(ifname, running[ifname])
        w == ReconcileInterface(ifname, running, cfgdb, bcm)
        rest == Tail(runs[r].todo)
    IN  /\ runs[r].pc = "push"
        /\ runs[r].todo # <<>>
        /\ cfgdb' = w.cfgdb
        /\ bcm' = w.bcm
        /\ IF ReconcileKeyError(ifname, running[ifname])
           THEN /\ runs' = RemoveAt(runs, r)
                /\ spc' = Raised(runs[r].by, "spc")
                /\ cpc' = Raised(runs[r].by, "cpc")
                /\ exc' = Error("KeyError", "config[key]")
           ELSE /\ runs' = [runs EXCEPT ![r] =
                               IF rest = <<>>
                               THEN Run(@.by, "hooks", Servers, @.log \o ops)
                               ELSE Run(@.by, "push", rest, @.log \o ops)]
                /\ UNCHANGED <<spc, cpc, exc>>
        /\ UNCHANGED <<menu, rpcVars, running, portmap, is_rebooting, task_queue, snap, txnVars,
                       operVars>>

\* a run that clears the busy flag as soon as the first hook has returned
ReconcileHookClearsFlag(r) ==
    /\ runs[r].pc = "hooks"
    /\ runs[r].todo # <<>>
    /\ is_rebooting' = FALSE
    /\ runs' = [runs EXCEPT ![r] =
                   Run(@.by, "hooks", Tail(@.todo),
                       Append(@.log, WriteOp("reconcile", <<>>, Head(@.todo), "")))]
    /\ UNCHANGED <<menu, rpcVars, running, drvVars, task_queue, spc, cpc, exc, snap, txnVars,
                   operVars>>

\* reconcile, lines 423-424: the reconcile hook of the next cooperating server
ReconcileHook(r) ==
    /\ runs[r].pc = "hooks"
    /\ runs[r].todo # <<>>
    /\ runs' = [runs EXCEPT ![r] =
                   Run(@.by, "hooks", Tail(@.todo),
                       Append(@.log, WriteOp("reconcile", <<>>, Head(@.todo), "")))]
    /\ UNCHANGED <<menu, rpcVars, running, drvVars, is_rebooting, task_queue, spc, cpc, exc, snap,
                   txnVars, operVars>>

\* reconcile, line 426: the flag is cleared and the coroutine returns
ReconcileFinish(r) ==
    /\ runs[r].pc = "hooks"
    /\ runs[r].todo = <<>>
    /\ is_rebooting' = FALSE
    /\ runs' = RemoveAt(runs, r)
    /\ spc' = Resumed(runs[r].by, "spc")
    /\ cpc' = Resumed(runs[r].by, "cpc")
    /\ UNCHANGED <<menu, rpcVars, running, drvVars, task_queue, exc, snap, txnVars, operVars>>

\* an awaited call of the run raises (the wait for ready times out, a vendor
\* command or a hook fails): the exception leaves reconcile() as it is
ReconcileRaises(r) ==
    /\ runs[r].pc \in {"wait", "push", "hooks"}
    /\ runs[r].pc = "hooks" => runs[r].todo # <<>>
    /\ runs' = RemoveAt(runs, r)
    /\ spc' = Raised(runs[r].by, "spc")
    /\ cpc' = Raised(runs[r].by, "cpc")
    /\ exc' = Error("ExternalError", "an awaited call raised")
    /\ UNCHANGED <<menu, rpcVars, running, drvVars, is_rebooting, task_queue, snap, txnVars,
                   operVars>>

\* what snap holds until reconcile() is called once more
NoSnap == [cfgdb |-> EmptyCfgDb, bcm |-> EmptyBcm]

\* reconcile() is called once more, with no change of the configuration
\* since the run before it returned
ReconcileAgain ==
    /\ spc = "serving"
    /\ runs = <<>>
    /\ task_queue = <<>>
    /\ tpc = "idle"
    /\ spc' = "again"
    /\ runs' = Append(runs, Run("again", "begin", <<>>, <<>>))
    /\ snap' = [cfgdb |-> cfgdb, bcm |-> bcm]
    /\ UNCHANGED <<menu, rpcVars, running, drvVars, is_rebooting, task_queue, cpc, exc, txnVars,
                   operVars>>

----------------------------------------------------------------------------
(* The operational status of an interface *)

\* the raw oper_status the driver reports (NoVal: the field is absent)
RawStatus == {"up", "down", NoVal}

\* the interfaces whose status changes in a run of the model, and the UFD
\* groups configured over them
OperIf == {E1_1, E1_2, E2_1}
UplinkLists == {<<>>, <<E1_1>>, <<E2_1>>, <<E1_1, E2_1>>, <<E2_1, E1_1>>}
DownlinkLists == {<<>>, <<E1_2>>}
UfdGroups == [uplink : UplinkLists, downlink : DownlinkLists]

RECURSIVE UfdListsUpTo(_)
UfdListsUpTo(n) ==
    IF n = 0 THEN {<<>>}
    ELSE LET prev == UfdListsUpTo(n - 1)
         IN  prev \cup {Append(l, g) : l \in prev, g \in UfdGroups}

UfdConfigs == UfdListsUpTo(MaxGroups)

InSeq(x, s) == \E k \in 1..Len(s) : s[k] = x

\* str.upper()
Upper(v) ==
    CASE v = "up" -> "UP"
      [] v = "down" -> "DOWN"
      [] v = "unknown" -> "UNKNOWN"
      [] OTHER -> v

\* InterfaceServer.is_downlink_port: <<downlink_port, uplink_port>>; a group
\* with no uplink leaf has no "uplink" key, the KeyError is passed over
RECURSIVE is_downlink_port(_, _)
is_downlink_port(ifname, ufd_list) ==
    IF ufd_list = <<>> THEN [downlink |-> FALSE, uplink |-> <<>>]
    ELSE IF /\ InSeq(ifname, Head(ufd_list).downlink)
            /\ Head(ufd_list).uplink # <<>>
    THEN [downlink |-> TRUE, uplink |-> Head(ufd_list).uplink]
    ELSE is_downlink_port(ifname, Tail(ufd_list))

\* InterfaceServer.get_oper_status
get_oper_status(ifname, raw, ufd_list) ==
    LET oper_status == raw[ifname]
        d == is_downlink_port(ifname, ufd_list)
    IN  IF d.downlink /\ d.uplink # <<>> /\ raw[d.uplink[1]] = "down"
        THEN "DORMANT"
        ELSE IF oper_status # NoVal THEN Upper(oper_status)
        ELSE NoVal

\* an on-demand read of the status of an interface
GetOperStatus(ifname) ==
    /\ resolved' = <<ifname, get_oper_status(ifname, oper, ufd)>>
    /\ UNCHANGED <<menu, rpcVars, running, drvVars, recVars, txnVars, oper, ufd, notif_if, notified,
                   handled>>

\* the driver reports a new raw status for an interface
LinkChange(ifname, status) ==
    /\ oper[ifname] # status
    /\ oper' = [oper EXCEPT ![ifname] = status]
    /\ resolved' = <<>>
    /\ handled' = <<>>
    /\ UNCHANGED <<menu, rpcVars, running, drvVars, recVars, txnVars, ufd, notif_if, notified>>

\* the notification event_handler sends for an interface
Notification(ifname, status) == [ifname |-> ifname, status |-> status]

\* sonic.notif_if before any notification, and no notification sent yet
EmptyNotifIf == [i \in AllIf |-> "unknown"]
NoneNotified == [i \in AllIf |-> NoVal]

\* InterfaceServer.event_handler: one message of the PORT_TABLE feed for ifname
EventHandler(ifname) ==
    LET oper_status == oper[ifname]
        curr_oper_status == notif_if[ifname]
        drop == oper_status = NoVal \/ curr_oper_status = oper_status
        notif == Notification(ifname, get_oper_status(ifname, oper, ufd))
    IN  /\ handled' = [ifname |-> ifname, curr |-> curr_oper_status,
                       prev |-> notified[ifname],
                       sent |-> IF drop THEN <<>> ELSE <<notif>>]
        /\ notif_if' = IF drop THEN notif_if
                       ELSE [notif_if EXCEPT ![ifname] = oper_status]
        /\ notified' = IF drop THEN notified
                       ELSE [notified EXCEPT ![ifname] = notif.status]
        /\ UNCHANGED <<menu, rpcVars, running, drvVars, recVars, txnVars, oper, ufd, resolved>>

----------------------------------------------------------------------------
(* The operational read and the CLI's removal of a breakout *)

\* oper_cb, lines 594-643: the interfaces of a read of every interface, each
\* with the parent its breakout state names (<<>>: none)
OperInterfaces(pm) ==
    LET names == SortedNames(get_ifnames(pm))
    IN  [k \in 1..Len(names) |->
            [name |-> names[k],
             parent |-> IF ~EndsWith(names[k], <<"_", "1">>) /\ Contains(names[k], <<"_">>)
                        THEN ParentOf(names[k]) ELSE <<>>]]

\* whether a read of every interface is suspended at its await
oper_cb_awaits == reply.op = "oper_cb" /\ reply.pc = "await"

\* InterfaceServer.oper_cb for a read of every interface, up to its await of
\* bcm_ports_info (lines 589-656): refused when the flag is set, else the
\* interfaces are listed and the coroutine is suspended
OperCb ==
    /\ spc = "serving"
    /\ ~oper_cb_awaits
    /\ reply' = IF is_rebooting
                 THEN [op |-> "oper_cb", pc |-> "done", rebooting |-> TRUE,
                       error |-> Error("CallbackFailedError", "uSONiC is rebooting"),
                       interfaces |-> <<>>, during |-> FALSE]
                 ELSE [op |-> "oper_cb", pc |-> "await", rebooting |-> FALSE,
                       error |-> NoError,
                       interfaces |-> OperInterfaces(portmap), during |-> FALSE]
    /\ UNCHANGED <<menu, vlan, cli, counters, counter_cache, running, drvVars, recVars, txnVars,
                   operVars>>

\* oper_cb after its await (lines 660-699): the counters, the oper-status
\* and the port table of each listed interface are read and returned;
\* "during" keeps whether a reconcile run was in progress when they were read
OperCbReturns ==
    /\ oper_cb_awaits
    /\ reply' = [reply EXCEPT !.pc = "done", !.during = (runs # <<>>)]
    /\ UNCHANGED <<menu, vlan, cli, counters, counter_cache, running, drvVars, recVars, txnVars,
                   operVars>>

\* get_running_data of .../ethernet/breakout/state of an interface: what
\* oper_cb (lines 636-647) gives as its breakout state, the parent of a
\* sub-interface and the breakout configuration of another
BreakoutState(ifname, tree, pm) ==
    LET found == {k \in 1..Len(OperInterfaces(pm)) : OperInterfaces(pm)[k].name = ifname}
        intf == OperInterfaces(pm)[CHOOSE k \in found : TRUE]
    IN  IF found = {} THEN [numch |-> <<>>, speed |-> <<>>, parent |-> <<>>]
        ELSE IF intf.parent # <<>>
        THEN [numch |-> <<>>, speed |-> <<>>, parent |-> intf.parent]
        ELSE [numch |-> tree[ifname]["num-channels"],
              speed |-> tree[ifname]["channel-speed"], parent |-> <<>>]

\* int(v) of a channel count
IntOf(v) ==
    CASE v = "1" -> 1
      [] v = "2" -> 2
      [] v = "4" -> 4

\* InterfaceServer.get_breakout_detail: the error it raises (NoError when it
\* returns) and the detail it returns (<<>>: None). The elif of line 516
\* reads "name", which is bound nowhere: a NameError
get_breakout_detail(ifname, tree, pm) ==
    LET data == BreakoutState(ifname, tree, pm)
    IN  IF data.numch = <<>> /\ data.speed = <<>> /\ data.parent = <<>>
        THEN [error |-> NoError, detail |-> <<>>]
        ELSE IF data.numch # <<>> /\ IntOf(data.numch[1]) > 1
        THEN (IF data.speed = <<>>
              THEN [error |-> Error("KeyError", "channel-speed"), detail |-> <<>>]
              ELSE [error |-> NoError,
                    detail |-> <<[numch |-> data.numch[1], speed |-> data.speed[1]]>>])
        ELSE [error |-> Error("NameError", "name 'name' is not defined"), detail |-> <<>>]

SINGLE_LANE_INTERFACE_TYPES == {"CR", "LR", "SR", "KR"}
DOUBLE_LANE_INTERFACE_TYPES == {"CR2", "LR2", "SR2", "KR2"}
QUAD_LANE_INTERFACE_TYPES == {"CR4", "LR4", "SR4", "KR4"}

\* an interface-type check that takes every interface for one of no breakout
validate_interface_typeNoBreakout(ifname, iftype, tree, pm) ==
    IF iftype \notin QUAD_LANE_INTERFACE_TYPES
    THEN Error("InvalArgError", "Unsupported interface type")
    ELSE NoError

\* InterfaceServer.validate_interface_type: the error it raises, NoError when
\* it returns. No channel speed of the schema ends in "10GB"
validate_interface_type(ifname, iftype, tree, pm) ==
    LET got == get_breakout_detail(ifname, tree, pm)
        caught == got.error.cls = "KeyError" \/ (got.error = NoError /\ got.detail = <<>>)
        numch == IF caught THEN 1 ELSE IntOf(got.detail[1].numch)
        err == Error("InvalArgError", "Unsupported interface type")
    IN  IF got.error # NoError /\ ~caught THEN got.error
        ELSE IF numch = 4
        THEN (IF got.detail[1].speed = "SPEED_10GB" /\ iftype = "SR" THEN err
              ELSE IF iftype \notin SINGLE_LANE_INTERFACE_TYPES THEN err
              ELSE NoError)
        ELSE IF numch = 2
        THEN (IF iftype \notin DOUBLE_LANE_INTERFACE_TYPES THEN err ELSE NoError)
        ELSE IF iftype \notin QUAD_LANE_INTERFACE_TYPES THEN err
        ELSE NoError

\* EthernetIfTypeHandler.validate of a created interface-type, by itself
ValidateInterfaceType(ifname, iftype) ==
    /\ spc = "serving"
    /\ reply' = [op |-> "validate_interface_type", ifname |-> ifname, iftype |-> iftype,
                 error |-> validate_interface_type(ifname, iftype, running, portmap)]
    /\ UNCHANGED <<menu, vlan, cli, counters, counter_cache, running, drvVars, recVars, txnVars,
                   operVars>>

\* a call of get_breakout_detail by itself
GetBreakoutDetail(ifname) ==
    /\ spc = "serving"
    /\ reply' = [op |-> "get_breakout_detail", ifname |-> ifname,
                 answer |-> get_breakout_detail(ifname, running, portmap)]
    /\ UNCHANGED <<menu, vlan, cli, counters, counter_cache, running, drvVars, recVars, txnVars,
                   operVars>>

\* the hardware counter of the interface goes up
CountersAdvance ==
    /\ counters < MaxCount
    /\ counters' = counters + 1
    /\ reply' = NoReply
    /\ UNCHANGED <<menu, vlan, cli, counter_cache, running, drvVars, recVars, txnVars, operVars>>

\* a clear_counters that forgets the notifications sent as well
ClearCountersAndNotifications ==
    /\ spc = "serving"
    /\ counter_cache' = cache_counters(counters)
    /\ notif_if' = EmptyNotifIf
    /\ reply' = [op |-> "clear_counters", again |-> reply.op = "clear_counters",
                 prev |-> counter_cache]
    /\ UNCHANGED <<menu, vlan, cli, counters, running, drvVars, recVars, txnVars, oper, ufd,
                   resolved, notified, handled>>

\* InterfaceServer.clear_counters, the rpc clear-counters; the reply keeps
\* whether the call before it was one too, with no count in between, and the
\* baseline that call left
ClearCounters ==
    /\ spc = "serving"
    /\ counter_cache' = cache_counters(counters)
    /\ reply' = [op |-> "clear_counters", again |-> reply.op = "clear_counters",
                 prev |-> counter_cache]
    /\ UNCHANGED <<menu, vlan, cli, counters, running, drvVars, recVars, txnVars, operVars>>

\* the edits of session.delete(ifxpath(i)) for the interfaces names: every
\* leaf the running data holds for them is deleted
DeleteEdits(names) ==
    {e \in [i : 1..Len(EditIfOrder), l : 1..Len(LeafOrder), value : {NoVal}] :
        EditIf(e) \in names /\ running[EditIf(e)][EditLeaf(e)] # <<>>}

\* a removal that deletes the configuration of the interface it is given alone
SetBreakoutDeleteParentOnly(ifname) ==
    LET refused == ~Contains(ifname, <<"_", "1">>)
        data == \/ running[ifname]["num-channels"] # <<>>
                \/ running[ifname]["channel-speed"] # <<>>
        S == IF refused \/ ~data THEN {} ELSE DeleteEdits({ifname})
        command == [cmd |-> "no breakout", ifname |-> ifname, config |-> data,
                    deleted |-> IF S = {} THEN {} ELSE {ifname},
                    error |-> IF refused THEN "InvalidInput" ELSE ""]
    IN  /\ spc = "serving"
        /\ tpc = "idle"
        /\ ~is_rebooting
        /\ IF S = {}
           THEN /\ cli' = command
                /\ UNCHANGED <<menu, vlan, reply, counters, counter_cache, running, drvVars,
                               recVars, txnVars, operVars>>
           ELSE Batch(S, command)

\* set_breakout(session, [ifname], None, None, model) of the CLI, "no
\* breakout", given while the server answers reads
SetBreakoutDelete(ifname) ==
    LET refused == ~Contains(ifname, <<"_", "1">>)
        data == \/ running[ifname]["num-channels"] # <<>>
                \/ running[ifname]["channel-speed"] # <<>>
        oper_data == OperInterfaces(portmap)
        interfaces == {ifname} \cup {oper_data[k].name : k \in
                          {j \in 1..Len(oper_data) : oper_data[j].parent = ifname}}
        S == IF refused \/ ~data THEN {} ELSE DeleteEdits(interfaces)
        command == [cmd |-> "no breakout", ifname |-> ifname, config |-> data,
                    deleted |-> IF S = {} THEN {} ELSE interfaces,
                    error |-> IF refused THEN "InvalidInput" ELSE ""]
    IN  /\ spc = "serving"
        /\ tpc = "idle"
        /\ ~is_rebooting
        /\ IF S = {}
           THEN /\ cli' = command
                /\ UNCHANGED <<menu, vlan, reply, counters, counter_cache, running, drvVars,
                               recVars, txnVars, operVars>>
           ELSE Batch(S, command)

----------------------------------------------------------------------------
(* The VLAN membership of an interface *)

\* the leaves of switched-vlan/config, in schema order, and the VLAN ids and
\* interfaces of the model
VlanLeaves == <<"interface-mode", "access-vlan", "trunk-vlans">>
Vids == {"10", "20"}
VlanIfs == {E1_1, E2_1}

\* switched-vlan/config of an interface with nothing set, and CONFIG_DB with
\* no VLAN_MEMBER|Vlan<vid>|<ifname> entry (NoVal: no entry, else the
\* tagging_mode of the entry)
NoVlanConfig == [l \in {"interface-mode", "access-vlan", "trunk-vlans"} |-> <<>>]
NoMembers == [i \in VlanIfs |-> [v \in Vids |-> NoVal]]

NoVlan ==
    [config |-> NoVlanConfig, member |-> NoMembers, pc |-> "idle", events |-> <<>>,
     idx |-> 1, candidate |-> NoVlanConfig, error |-> NoError]

\* sonic.set_vlan_member / remove_vlan_member: the entry of the VLAN and the
\* interface is written with its tagging_mode, or removed
set_vlan_member(member, ifname, vid, mode) == [member EXCEPT ![ifname][vid] = mode]
remove_vlan_member(member, ifname, vid) == [member EXCEPT ![ifname][vid] = NoVal]

\* the edits a client makes to switched-vlan/config of Ethernet1_1 (NoVal:
\* the leaf is deleted)
VlanEditValues(leaf) ==
    IF leaf = "interface-mode" THEN {"ACCESS", "TRUNK", NoVal} ELSE Vids \cup {NoVal}

VlanEdits ==
    {e \in [l : 1..Len(VlanLeaves), value : {"ACCESS", "TRUNK", NoVal} \cup Vids] :
        e.value \in VlanEditValues(VlanLeaves[e.l])}

VlanEditSets ==
    {S \in SUBSET VlanEdits : S # {} /\ \A e, f \in S : e.l = f.l => e = f}

\* the edit of a leaf in a set of edits, as a sequence of at most one
VlanEditOf(S, l) ==
    IF \E e \in S : e.l = l THEN <<CHOOSE e \in S : e.l = l>> ELSE <<>>

\* the change events of one edit against switched-vlan/config, and the
\* configuration after it; trunk-vlans is a leaf-list
VlanChangesOf(config, e) ==
    LET leaf == VlanLeaves[e.l]
        old == config[leaf]
    IN  IF e.value = NoVal
        THEN [k \in 1..Len(old) |-> ChangeEvent(E1_1, leaf, "deleted", old[k])]
        ELSE IF leaf = "trunk-vlans"
        THEN (IF \E k \in 1..Len(old) : old[k] = e.value THEN <<>>
              ELSE <<ChangeEvent(E1_1, leaf, "created", e.value)>>)
        ELSE IF old = <<>> THEN <<ChangeEvent(E1_1, leaf, "created", e.value)>>
        ELSE IF old = <<e.value>> THEN <<>>
        ELSE <<ChangeEvent(E1_1, leaf, "modified", e.value)>>

VlanApplyEdit(config, e) ==
    LET leaf == VlanLeaves[e.l]
        old == config[leaf]
    IN  [config EXCEPT ![leaf] =
            IF e.value = NoVal THEN <<>>
            ELSE IF leaf = "trunk-vlans"
            THEN (IF \E k \in 1..Len(old) : old[k] = e.value THEN old
                  ELSE Append(old, e.value))
            ELSE <<e.value>>]

RECURSIVE VlanChangesOfAll(_, _)
VlanChangesOfAll(config, es) ==
    IF es = <<>> THEN <<>>
    ELSE VlanChangesOf(config, Head(es)) \o VlanChangesOfAll(config, Tail(es))

RECURSIVE VlanApplyEdits(_, _)
VlanApplyEdits(config, es) ==
    IF es = <<>> THEN config
    ELSE VlanApplyEdits(VlanApplyEdit(config, Head(es)), Tail(es))

\* VLANIfModeHandler.validate against the configuration the batch leads to
VLANIfModeValidate(ev, cache) ==
    IF ev.type \in {"created", "modified"}
    THEN (IF cache["interface-mode"] = <<"TRUNK">> /\ cache["access-vlan"] # <<>>
          THEN Error("InvalArgError",
                     "can't set TRUNK mode and access-vlan at the same time")
          ELSE IF cache["interface-mode"] = <<"ACCESS">> /\ cache["trunk-vlans"] # <<>>
          THEN Error("InvalArgError",
                     "can't set ACCESS mode and trunk-vlans at the same time")
          ELSE NoError)
    ELSE IF cache["access-vlan"] # <<>> \/ cache["trunk-vlans"] # <<>>
    THEN Error("InvalArgError",
               "must remove interface-mode, access-vlan, trunk-vlans leaves at once")
    ELSE NoError

\* <handler>.validate of a VLAN change: AccessVLANHandler and
\* TrunkVLANsHandler define none
VlanValidate(ev, cache) ==
    IF ev.leaf = "interface-mode" THEN VLANIfModeValidate(ev, cache) ELSE NoError

\* the first error of constructing and validating the handlers, in order
RECURSIVE VlanValidateAll(_, _, _)
VlanValidateAll(events, cache, pm) ==
    IF events = <<>> THEN NoError
    ELSE IF IfChangeHandlerInit(Head(events), pm) # NoError
    THEN IfChangeHandlerInit(Head(events), pm)
    ELSE IF VlanValidate(Head(events), cache) # NoError
    THEN VlanValidate(Head(events), cache)
    ELSE VlanValidateAll(Tail(events), cache, pm)

\* an apply that leaves the untagged memberships the interface has
AccessVLANApplyKeepsOld(ev, member) ==
    IF ev.type \in {"created", "modified"}
    THEN set_vlan_member(member, ev.ifname, ev.value, "untagged")
    ELSE member

\* AccessVLANHandler.apply
AccessVLANApply(ev, member) ==
    LET cleared == [member EXCEPT ![ev.ifname] =
                       [v \in Vids |-> IF @[v] = "untagged" THEN NoVal ELSE @[v]]]
    IN  IF ev.type \in {"created", "modified"}
        THEN set_vlan_member(cleared, ev.ifname, ev.value, "untagged")
        ELSE cleared

\* TrunkVLANsHandler.apply
TrunkVLANsApply(ev, member) ==
    IF ev.type = "created" THEN set_vlan_member(member, ev.ifname, ev.value, "tagged")
    ELSE IF ev.type = "modified" THEN member
    ELSE IF member[ev.ifname][ev.value] = "tagged"
    THEN remove_vlan_member(member, ev.ifname, ev.value)
    ELSE member

\* <handler>.apply of a VLAN change: VLANIfModeHandler defines none
VlanApplyHandler(ev, member) ==
    IF ev.leaf = "access-vlan" THEN AccessVLANApply(ev, member)
    ELSE IF ev.leaf = "trunk-vlans" THEN TrunkVLANsApply(ev, member)
    ELSE member

\* a commit of VLAN edits of Ethernet1_1: pre, then the handlers are
\* constructed and validated; a refused batch leaves the configuration
VlanCommit(S) ==
    LET es == VlanEditOf(S, 1) \o VlanEditOf(S, 2) \o VlanEditOf(S, 3)
        events == VlanChangesOfAll(vlan.config, es)
        cache == VlanApplyEdits(vlan.config, es)
        err == VlanValidateAll(events, cache, portmap)
    IN  /\ spc = "serving"
        /\ ~is_rebooting
        /\ vlan.pc = "idle"
        /\ events # <<>>
        /\ vlan' = [vlan EXCEPT !.events = events, !.candidate = cache, !.error = err,
                                !.idx = 1,
                                !.pc = IF err = NoError THEN "apply" ELSE "idle"]
        /\ UNCHANGED <<menu, cli, reply, counters, counter_cache, running, drvVars, recVars,
                       txnVars, operVars>>

\* the apply of the next handler of the batch of VLAN changes; after the
\* last the datastore holds the configuration the batch leads to
VlanApply ==
    /\ vlan.pc = "apply"
    /\ vlan' = [vlan EXCEPT
                   !.member = VlanApplyHandler(vlan.events[vlan.idx], vlan.member),
                   !.idx = vlan.idx + 1,
                   !.pc = IF vlan.idx = Len(vlan.events) THEN "idle" ELSE "apply",
                   !.config = IF vlan.idx = Len(vlan.events) THEN vlan.candidate
                              ELSE vlan.config]
    /\ UNCHANGED <<menu, cli, reply, counters, counter_cache, running, drvVars, recVars,
                   txnVars, operVars>>

----------------------------------------------------------------------------
(* The interface commands of the CLI *)

\* the position of x in the sequence s
IndexOf(s, x) == CHOOSE k \in 1..Len(s) : s[k] = x

\* an edit of the leaf of ifname, as the session of the CLI holds it
EditOf(ifname, leaf, value) ==
    [i |-> IndexOf(EditIfOrder, ifname), l |-> IndexOf(LeafOrder, leaf), value |-> value]

\* str.split("X") of an argument given as tokens, "X" a token of its own: the
\* pieces between the separators, an empty piece where nothing stands
RECURSIVE SplitX(_)
SplitX(arg) ==
    IF \A k \in 1..Len(arg) : arg[k] # "X" THEN <<arg>>
    ELSE LET cut == CHOOSE k \in 1..Len(arg) :
                        arg[k] = "X" /\ \A j \in 1..(k - 1) : arg[j] # "X"
         IN  <<SubSeq(arg, 1, cut - 1)>> \o SplitX(SubSeq(arg, cut + 1, Len(arg)))

\* the text of a piece of one token, "" of an empty one
PieceText(piece) == IF piece = <<>> THEN "" ELSE piece[1]

\* speed_human_to_yang of the CLI
speed_human_to_yang(speed) ==
    CASE speed = "50G" -> "SPEED_50G"
      [] speed = "25G" -> "SPEED_25G"
      [] speed = "20G" -> "SPEED_20G"
      [] speed = "10G" -> "SPEED_10G"
      [] speed = "100G" -> "SPEED_100G"

\* speed_yang_to_human of the CLI
speed_yang_to_human(speed) ==
    CASE speed = "SPEED_100G" -> "100G"
      [] speed = "SPEED_50G" -> "50G"
      [] speed = "SPEED_40G" -> "40G"
      [] speed = "SPEED_25G" -> "25G"
      [] speed = "SPEED_20G" -> "20G"
      [] speed = "SPEED_10G" -> "10G"

\* BreakoutCommand.arguments, and the arguments the model gives the command
BreakoutArguments ==
    {<<"2", "X", "50G">>, <<"2", "X", "20G">>, <<"4", "X", "25G">>, <<"4", "X", "10G">>}
BreakoutLines ==
    {<<a>> : a \in BreakoutArguments \cup
                   {<<"4", "X", "50G">>, <<"1", "X", "50G">>, <<"2", "X", "100G">>,
                    <<"50G">>, <<"2", "X", "50G", "X">>}} \cup {<<>>}

\* the checks of BreakoutCommand.exec on its line (lines 889-902): whether it
\* raises InvalidInput. The second operand of the "and" of line 895 is true
\* of every text
BreakoutCommandRefuses(line) ==
    IF Len(line) # 1 THEN TRUE
    ELSE LET input_values == SplitX(line[1])
         IN  \/ /\ Len(input_values) # 2
                /\ (PieceText(input_values[1]) # "2" \/ PieceText(input_values[1]) # "4")
             \/ Len(input_values) < 2
             \/ PieceText(input_values[2]) \notin {"50G", "20G", "10G", "25G"}

\* a check of the line that accepts the arguments of BreakoutCommand.arguments
\* alone
BreakoutCommandRefusesUnlisted(line) ==
    Len(line) # 1 \/ line[1] \notin BreakoutArguments

\* the edits of set_breakout(session, [ifname], numch, speed, model) with a
\* channel count and a speed (lines 482-494): the interface is deleted, then
\* its two breakout leaves are set
SetBreakoutEdits(ifname, numch, speed) ==
    LET sets == {EditOf(ifname, "num-channels", numch),
                 EditOf(ifname, "channel-speed", speed_human_to_yang(speed))}
        deletes == {e \in DeleteEdits({ifname}) :
                       EditLeaf(e) \notin {"num-channels", "channel-speed"}}
    IN  {e \in sets \cup deletes : ChangesOf(running, e) # <<>>}

\* BreakoutCommand.exec of "breakout <line>" in the context of ifname, with
\* the set_breakout it calls and the commit of its session
BreakoutCommandExec(ifname, line) ==
    LET refused == BreakoutCommandRefuses(line)
        input_values == SplitX(line[1])
        sub == ~Contains(ifname, <<"_", "1">>)
        S == IF refused \/ sub THEN {}
             ELSE SetBreakoutEdits(ifname, PieceText(input_values[1]),
                                   PieceText(input_values[2]))
        command == [cmd |-> "breakout", ifname |-> ifname, line |-> line,
                    edits |-> S,
                    error |-> IF refused \/ sub THEN "InvalidInput" ELSE ""]
    IN  /\ spc = "serving"
        /\ tpc = "idle"
        /\ ~is_rebooting
        /\ IF S = {}
           THEN /\ cli' = command
                /\ UNCHANGED <<menu, vlan, reply, counters, counter_cache, running, drvVars,
                               recVars, txnVars, operVars>>
           ELSE Batch(S, command)

\* the edits of _set(session, [ifname], attr, value, model) (lines 323-331):
\* a value that is true in Python is set, any other deletes the leaf
SetEdits(ifname, leaf, value) ==
    LET e == IF Truthy(value)
             THEN EditOf(ifname, leaf, IF value = "True" THEN "true" ELSE value)
             ELSE EditOf(ifname, leaf, NoVal)
    IN  {f \in {e} : ChangesOf(running, f) # <<>>}

\* a _set that deletes the leaf for None alone
SetEditsKeepsFalse(ifname, leaf, value) ==
    LET e == IF value # NoVal
             THEN EditOf(ifname, leaf, CASE value = "True" -> "true"
                                         [] value = "False" -> "false"
                                         [] OTHER -> value)
             ELSE EditOf(ifname, leaf, NoVal)
    IN  {f \in {e} : ChangesOf(running, f) # <<>>}

\* the lines the model gives the auto-negotiate command
AutoNegoLines == {<<>>, <<"enable">>, <<"disable">>}

\* AutoNegoCommand.exec of "[no] auto-negotiate <line>" in the context of
\* ifname (lines 845-858), with set_auto_nego and the commit of its session
AutoNegoCommandExec(ifname, root, line) ==
    LET refused == IF root = "no" THEN Len(line) # 0 ELSE Len(line) # 1
        value == IF root = "no" THEN NoVal
                 ELSE IF line[1] = "enable" THEN "True" ELSE "False"
        S == IF refused THEN {} ELSE SetEdits(ifname, "enabled", value)
        command == [cmd |-> "auto-negotiate", ifname |-> ifname, root |-> root,
                    line |-> line, edits |-> S,
                    error |-> IF refused THEN "InvalidInput" ELSE ""]
    IN  /\ spc = "serving"
        /\ tpc = "idle"
        /\ ~is_rebooting
        /\ IF S = {}
           THEN /\ cli' = command
                /\ UNCHANGED <<menu, vlan, reply, counters, counter_cache, running, drvVars,
                               recVars, txnVars, operVars>>
           ELSE Batch(S, command)

\* AutoNegoCommand.to_command (lines 860-875): the lines of the running
\* configuration of the auto-negotiate container cfg; "enabled" is shown
\* when it is true in Python
AutoNegoToCommand(cfg) ==
    (IF cfg["enabled"] = <<"true">> THEN <<"auto-negotiate enable">> ELSE <<>>)
    \o (IF cfg["advertised-speeds"] # <<>>
        THEN << <<"auto-negotiate advertise">> \o
                [k \in 1..Len(cfg["advertised-speeds"]) |->
                    speed_yang_to_human(cfg["advertised-speeds"][k])] >>
        ELSE <<>>)

\* "show running-config" of the auto-negotiate commands of ifname
ShowRunningConfig(ifname) ==
    /\ spc = "serving"
    /\ reply' = [op |-> "running-config", ifname |-> ifname,
                 enabled |-> running[ifname]["enabled"],
                 lines |-> AutoNegoToCommand(running[ifname])]
    /\ UNCHANGED <<menu, vlan, cli, counters, counter_cache, running, drvVars, recVars,
                   txnVars, operVars>>

----------------------------------------------------------------------------
(* The static MACsec key of the CLI *)

\* str.split(sep) of a text given as characters: the pieces between the
\* separators, an empty piece where nothing stands
RECURSIVE SplitAt(_, _)
SplitAt(text, sep) ==
    IF \A k \in 1..Len(text) : text[k] # sep THEN <<text>>
    ELSE LET cut == CHOOSE k \in 1..Len(text) :
                        text[k] = sep /\ \A j \in 1..(k - 1) : text[j] # sep
         IN  <<SubSeq(text, 1, cut - 1)>> \o SplitAt(SubSeq(text, cut + 1, Len(text)), sep)

\* sep.join(pieces)
RECURSIVE JoinWith(_, _)
JoinWith(pieces, sep) ==
    IF pieces = <<>> THEN <<>>
    ELSE IF Len(pieces) = 1 THEN pieces[1]
    ELSE pieces[1] \o <<sep>> \o JoinWith(Tail(pieces), sep)

\* the digits of base 16 in order, and the value of one
HexDigits == <<"0", "1", "2", "3", "4", "5", "6", "7", "8", "9",
               "a", "b", "c", "d", "e", "f">>
IsDigit(c, base) == \E k \in 1..base : HexDigits[k] = c
DigitValue(c) == IndexOf(HexDigits, c) - 1

\* an unsigned integer of 32 bits as its two halves of 16 bits; over: the
\* number does not fit 32 bits
Word == 65536
Uint32(hi, lo) == [hi |-> hi, lo |-> lo, over |-> FALSE]

\* n * base + d of a number held in halves
ShiftIn(n, base, d) ==
    LET lo == n.lo * base + d
        hi == n.hi * base + (lo \div Word)
    IN  [hi |-> hi % Word, lo |-> lo % Word, over |-> n.over \/ hi >= Word]

RECURSIVE DigitsValue(_, _, _)
DigitsValue(digits, base, n) ==
    IF digits = <<>> THEN n
    ELSE DigitsValue(Tail(digits), base, ShiftIn(n, base, DigitValue(Head(digits))))

\* int(text, 0) of Python for the literals of the model, decimal without a
\* leading zero and hexadecimal with 0x: <<>> for a ValueError, else the
\* number
PyInt(text) ==
    IF Len(text) >= 3 /\ text[1] = "0" /\ text[2] = "x"
    THEN (IF \A k \in 3..Len(text) : IsDigit(text[k], 16)
          THEN <<DigitsValue(SubSeq(text, 3, Len(text)), 16, Uint32(0, 0))>>
          ELSE <<>>)
    ELSE IF text = <<>> \/ \E k \in 1..Len(text) : ~IsDigit(text[k], 10) THEN <<>>
    ELSE IF Len(text) > 1 /\ text[1] = "0" /\ \E k \in 1..Len(text) : text[k] # "0"
    THEN <<>>
    ELSE <<DigitsValue(text, 10, Uint32(0, 0))>>

\* struct.pack("I", n) and struct.unpack("I", bytes) of a little-endian
\* build: four bytes, the least significant first
PackI(n) == <<n.lo % 256, n.lo \div 256, n.hi % 256, n.hi \div 256>>
UnpackIBigEndian(bytes) ==
    Uint32(bytes[1] * 256 + bytes[2], bytes[3] * 256 + bytes[4])
UnpackI(bytes) ==
    Uint32(bytes[4] * 256 + bytes[3], bytes[2] * 256 + bytes[1])

\* base64.b64encode of bytes: the digits of base 64 of each group of three
\* bytes, the last group padded, Pad64 for "="
Pad64 == 64
RECURSIVE b64encode(_)
b64encode(bytes) ==
    IF bytes = <<>> THEN <<>>
    ELSE IF Len(bytes) = 1
    THEN <<bytes[1] \div 4, (bytes[1] % 4) * 16, Pad64, Pad64>>
    ELSE IF Len(bytes) = 2
    THEN <<bytes[1] \div 4, (bytes[1] % 4) * 16 + (bytes[2] \div 16),
           (bytes[2] % 16) * 4, Pad64>>
    ELSE <<bytes[1] \div 4, (bytes[1] % 4) * 16 + (bytes[2] \div 16),
           (bytes[2] % 16) * 4 + (bytes[3] \div 64), bytes[3] % 64>>
         \o b64encode(SubSeq(bytes, 4, Len(bytes)))

\* base64.b64decode of a padded text
RECURSIVE b64decode(_)
b64decode(text) ==
    IF text = <<>> THEN <<>>
    ELSE LET b1 == text[1] * 4 + (text[2] \div 16)
             b2 == (text[2] % 16) * 16 + (text[3] \div 4)
             b3 == (text[3] % 4) * 64 + text[4]
         IN  (IF text[3] = Pad64 THEN <<b1>>
              ELSE IF text[4] = Pad64 THEN <<b1, b2>>
              ELSE <<b1, b2, b3>>)
             \o b64decode(SubSeq(text, 5, Len(text)))

\* f"0x{i:08x}"
Hex8(n) ==
    <<"0", "x">> \o
    [k \in 1..8 |->
        LET half == IF k <= 4 THEN n.hi ELSE n.lo
            pos  == IF k <= 4 THEN k ELSE k - 4
            unit == CASE pos = 1 -> 4096 [] pos = 2 -> 256 [] pos = 3 -> 16 [] pos = 4 -> 1
        IN  HexDigits[((half \div unit) % 16) + 1]]

\* static_macsec_key_to_yang: <<>> for None, else the error of struct.pack
\* (a number that does not fit 32 bits) or the key
static_macsec_key_to_yang(key) ==
    LET v == SplitAt(key, ",")
        ints == [k \in 1..Len(v) |-> PyInt(v[k])]
    IN  IF Len(v) # 4 THEN <<>>
        ELSE IF \E k \in 1..4 : ints[k] = <<>> THEN <<>>
        ELSE IF \E k \in 1..4 : ints[k][1].over
        THEN <<[error |-> "struct.error", key |-> <<>>]>>
        ELSE <<[error |-> "",
                key |-> b64encode(PackI(ints[1][1]) \o PackI(ints[2][1])
                                  \o PackI(ints[3][1]) \o PackI(ints[4][1]))]>>

\* static_macsec_key_to_human
static_macsec_key_to_human(key) ==
    LET bytes == b64decode(key)
    IN  JoinWith([k \in 1..4 |-> Hex8(UnpackI(SubSeq(bytes, 4 * k - 3, 4 * k)))], ",")

\* the fields the model writes a key with, each with the number it stands
\* for (<<>>: the text is no integer; the last but one does not fit 32 bits)
KeyFields ==
    << [text |-> <<"1">>, value |-> <<Uint32(0, 1)>>],
       [text |-> <<"2">>, value |-> <<Uint32(0, 2)>>],
       [text |-> <<"3">>, value |-> <<Uint32(0, 3)>>],
       [text |-> <<"4">>, value |-> <<Uint32(0, 4)>>],
       [text |-> <<"0", "x", "f", "f">>, value |-> <<Uint32(0, 255)>>],
       [text |-> <<"3", "0", "5", "4", "1", "9", "8", "9", "6">>,
        value |-> <<Uint32(4660, 22136)>>],
       [text |-> <<"4", "2", "9", "4", "9", "6", "7", "2", "9", "5">>,
        value |-> <<Uint32(65535, 65535)>>],
       [text |-> <<"4", "2", "9", "4", "9", "6", "7", "2", "9", "6">>,
        value |-> <<[hi |-> 0, lo |-> 0, over |-> TRUE]>>],
       [text |-> <<"a">>, value |-> <<>>],
       [text |-> <<>>, value |-> <<>>] >>

\* the keys of the model: four fields, or three or five of the first four
KeyChoices ==
    [1..4 -> 1..Len(KeyFields)] \cup [1..3 -> 1..4] \cup [1..5 -> {1, 2}]

KeyText(choice) == JoinWith([k \in 1..Len(choice) |-> KeyFields[choice[k]].text], ",")

\* StaticMACSECCommand.exec of the "static-macsec-key <key>" the user has
\* written (lines 934-942): the key the command hands to _set, or the
\* exception it raises. choice tells what the text was written from
StaticMACSECCommandExec ==
    LET line == <<KeyText(cli.choice)>>
        key == static_macsec_key_to_yang(line[1])
    IN  /\ spc = "serving"
        /\ cli.cmd = ""
        /\ "choice" \in DOMAIN cli
        /\ cli' = [cmd |-> "static-macsec-key", ifname |-> cli.ifname, line |-> line,
                   choice |-> cli.choice,
                   key |-> IF key = <<>> THEN <<>> ELSE key[1].key,
                   error |-> IF key = <<>> THEN "InvalidInput" ELSE key[1].error]
        /\ UNCHANGED <<menu, vlan, reply, counters, counter_cache, running, drvVars, recVars,
                       txnVars, operVars>>

\* StaticMACSECCommand.to_command (lines 947-952) of the key the command has
\* set
StaticMACSECToCommand ==
    /\ cli.cmd = "static-macsec-key"
    /\ cli.key # <<>>
    /\ reply.op = ""
    /\ reply' = [op |-> "static-macsec-key", key |-> cli.key,
                 line |-> static_macsec_key_to_human(cli.key)]
    /\ UNCHANGED <<menu, vlan, cli, counters, counter_cache, running, drvVars, recVars,
                   txnVars, operVars>>

----------------------------------------------------------------------------
(* The specification *)

\* the configurations the datastore may hold when the server starts
BreakoutTree == [EmptyTree EXCEPT ![E1_1]["num-channels"] = <<"2">>,
                                  ![E1_1]["channel-speed"] = <<"SPEED_50G">>]

InitTrees == {EmptyTree, BreakoutTree}

Init ==
    /\ menu \in Menus
    /\ running \in InitTrees
    /\ cfgdb = EmptyCfgDb
    /\ bcm = EmptyBcm
    /\ portmap = EmptyPortmap
    /\ is_rebooting = FALSE
    /\ task_queue = <<>>
    /\ spc = "new"
    /\ cpc = "off"
    /\ runs = <<>>
    /\ exc = NoError
    /\ snap = NoSnap
    /\ tpc = "idle"
    /\ handlers = <<>>
    /\ tidx = 1
    /\ user = EmptyUser
    /\ applied = <<>>
    /\ reverted = <<>>
    /\ writes = <<>>
    /\ result = NoError
    /\ before = NoDriverState
    /\ candidate = EmptyTree
    /\ oper = [i \in AllIf |-> NoVal]
    /\ ufd = <<>>
    /\ resolved = <<>>
    /\ notif_if = EmptyNotifIf
    /\ notified = NoneNotified
    /\ handled = <<>>
    /\ cli = NoCommand
    /\ reply = NoReply
    /\ counters = 0
    /\ counter_cache = 0
    /\ vlan = NoVlan

Next ==
    \/ Start
    \/ HandleTasks
    \/ \E r \in 1..Len(runs) : ReconcileBegin(r)
    \/ \E r \in 1..Len(runs) : ReconcileWaitReady(r)
    \/ \E r \in 1..Len(runs) : ReconcilePush(r)
    \/ \E r \in 1..Len(runs) : ReconcileHook(r)
    \/ \E r \in 1..Len(runs) : ReconcileFinish(r)
    \/ \E r \in 1..Len(runs) : ReconcileRaises(r)
    \/ \E S \in EditSets : Commit(S)
    \/ ApplyReturns
    \/ ApplyFails
    \/ Post
    \/ Return

Spec == Init /\ [][Next]_vars

\* the status resolver alone: every raw status and every UFD configuration
InitOper ==
    /\ menu = MenuConfigDb
    /\ running = EmptyTree
    /\ cfgdb = EmptyCfgDb
    /\ bcm = EmptyBcm
    /\ portmap = EmptyPortmap
    /\ is_rebooting = FALSE
    /\ task_queue = <<>>
    /\ spc = "serving"
    /\ cpc = "sleep"
    /\ runs = <<>>
    /\ exc = NoError
    /\ snap = NoSnap
    /\ tpc = "idle"
    /\ handlers = <<>>
    /\ tidx = 1
    /\ user = EmptyUser
    /\ applied = <<>>
    /\ reverted = <<>>
    /\ writes = <<>>
    /\ result = NoError
    /\ before = NoDriverState
    /\ candidate = EmptyTree
    /\ oper \in [AllIf -> RawStatus]
    /\ \A i \in AllIf \ OperIf : oper[i] = NoVal
    /\ ufd \in UfdConfigs
    /\ resolved = <<>>
    /\ notif_if = EmptyNotifIf
    /\ notified = NoneNotified
    /\ handled = <<>>
    /\ cli = NoCommand
    /\ reply = NoReply
    /\ counters = 0
    /\ counter_cache = 0
    /\ vlan = NoVlan

NextOper ==
    \/ \E i \in OperIf : GetOperStatus(i)
    \/ \E i \in OperIf, st \in RawStatus : LinkChange(i, st)

SpecOper == InitOper /\ [][NextOper]_vars

\* the reconcile run alone: every configuration of Ethernet1_1 the datastore
\* may hold when the server starts, over a driver that is fresh or holds the
\* settings and the port map of an earlier life of the server
IfConfigs ==
    {[EmptyIfCfg EXCEPT !["admin-status"] = a, !["mtu"] = m, !["fec"] = f,
                        !["speed"] = s, !["enabled"] = e,
                        !["advertised-speeds"] = v, !["num-channels"] = b[1],
                        !["channel-speed"] = b[2], !["loopback-mode"] = l,
                        !["eth-unhandled"] = u] :
        a \in {<<>>, <<"UP">>}, m \in {<<>>, <<"1500">>}, f \in {<<>>, <<"RS">>},
        s \in {<<>>, <<"SPEED_40G">>}, e \in {<<>>, <<"true">>},
        v \in {<<>>, <<"SPEED_40G", "SPEED_10G">>},
        b \in {<< <<>>, <<>> >>, << <<"2">>, <<"SPEED_50G">> >>},
        l \in {<<>>, <<"NONE">>}, u \in {<<>>, <<"other">>}}

ReconcileTrees == {[EmptyTree EXCEPT ![E1_1] = c] : c \in IfConfigs}

StaleCfgDb == [EmptyCfgDb EXCEPT ![E1_1]["speed"] = "SPEED_100G",
                                 ![E1_1]["admin-status"] = "UP",
                                 ![E2_1]["mtu"] = "1500"]
StaleBcm == [EmptyBcm EXCEPT ![E1_1]["adv"] = <<"100g">>, ![E1_1]["an"] = <<"yes">>]

InitReconcile ==
    /\ menu = MenuConfigDb
    /\ running \in ReconcileTrees
    /\ \/ cfgdb = EmptyCfgDb /\ bcm = EmptyBcm
       \/ cfgdb = StaleCfgDb /\ bcm = StaleBcm
    /\ portmap \in {EmptyPortmap, BreakoutMap(BreakoutTree)}
    /\ is_rebooting = FALSE
    /\ task_queue = <<>>
    /\ spc = "new"
    /\ cpc = "off"
    /\ runs = <<>>
    /\ exc = NoError
    /\ snap = NoSnap
    /\ tpc = "idle"
    /\ handlers = <<>>
    /\ tidx = 1
    /\ user = EmptyUser
    /\ applied = <<>>
    /\ reverted = <<>>
    /\ writes = <<>>
    /\ result = NoError
    /\ before = NoDriverState
    /\ candidate = EmptyTree
    /\ oper = [i \in AllIf |-> NoVal]
    /\ ufd = <<>>
    /\ resolved = <<>>
    /\ notif_if = EmptyNotifIf
    /\ notified = NoneNotified
    /\ handled = <<>>
    /\ cli = NoCommand
    /\ reply = NoReply
    /\ counters = 0
    /\ counter_cache = 0
    /\ vlan = NoVlan

NextReconcile ==
    \/ Start
    \/ ReconcileAgain
    \/ \E r \in 1..Len(runs) : ReconcileBegin(r)
    \/ \E r \in 1..Len(runs) : ReconcileWaitReady(r)
    \/ \E r \in 1..Len(runs) : ReconcilePush(r)
    \/ \E r \in 1..Len(runs) : ReconcileHook(r)
    \/ \E r \in 1..Len(runs) : ReconcileFinish(r)
    \/ \E r \in 1..Len(runs) : ReconcileRaises(r)

SpecReconcile == InitReconcile /\ [][NextReconcile]_vars

\* the commits of breakout and advertised-speed configuration: a UFD group
\* that Ethernet1_1 is an uplink or a downlink of over a datastore without
\* breakout, or a group of other interfaces over one that holds a list of
\* advertised speeds
AdvTree == [EmptyTree EXCEPT ![E1_1]["advertised-speeds"] = <<"SPEED_40G", "SPEED_100G">>]

InitUfd ==
    /\ menu = MenuBreakout
    /\ \/ /\ running = EmptyTree
          /\ ufd \in {<<[uplink |-> <<E1_1>>, downlink |-> <<E1_2>>]>>,
                      <<[uplink |-> <<E2_1>>, downlink |-> <<E1_1>>]>>}
       \/ /\ running = AdvTree
          /\ ufd = <<[uplink |-> <<E2_1>>, downlink |-> <<E1_2>>]>>
    /\ cfgdb = EmptyCfgDb
    /\ bcm = EmptyBcm
    /\ portmap = EmptyPortmap
    /\ is_rebooting = FALSE
    /\ task_queue = <<>>
    /\ spc = "new"
    /\ cpc = "off"
    /\ runs = <<>>
    /\ exc = NoError
    /\ snap = NoSnap
    /\ tpc = "idle"
    /\ handlers = <<>>
    /\ tidx = 1
    /\ user = EmptyUser
    /\ applied = <<>>
    /\ reverted = <<>>
    /\ writes = <<>>
    /\ result = NoError
    /\ before = NoDriverState
    /\ candidate = EmptyTree
    /\ oper = [i \in AllIf |-> NoVal]
    /\ resolved = <<>>
    /\ notif_if = EmptyNotifIf
    /\ notified = NoneNotified
    /\ handled = <<>>
    /\ cli = NoCommand
    /\ reply = NoReply
    /\ counters = 0
    /\ counter_cache = 0
    /\ vlan = NoVlan

SpecUfd == InitUfd /\ [][Next]_vars

\* the CLI's removal of a breakout and the reads of the operational data,
\* beside a client that sets the admin-status of Ethernet1_1: a datastore
\* that holds no breakout, or one of Ethernet1_1 with or without
\* configuration of its second channel
ChildTree == [BreakoutTree EXCEPT ![E1_2]["admin-status"] = <<"UP">>]

InitCli ==
    /\ menu = MenuSubBreakout
    /\ running \in {EmptyTree, BreakoutTree, ChildTree}
    /\ ufd = <<>>
    /\ cfgdb = EmptyCfgDb
    /\ bcm = EmptyBcm
    /\ portmap = EmptyPortmap
    /\ is_rebooting = FALSE
    /\ task_queue = <<>>
    /\ spc = "new"
    /\ cpc = "off"
    /\ runs = <<>>
    /\ exc = NoError
    /\ snap = NoSnap
    /\ tpc = "idle"
    /\ handlers = <<>>
    /\ tidx = 1
    /\ user = EmptyUser
    /\ applied = <<>>
    /\ reverted = <<>>
    /\ writes = <<>>
    /\ result = NoError
    /\ before = NoDriverState
    /\ candidate = EmptyTree
    /\ oper = [i \in AllIf |-> NoVal]
    /\ resolved = <<>>
    /\ notif_if = EmptyNotifIf
    /\ notified = NoneNotified
    /\ handled = <<>>
    /\ cli = NoCommand
    /\ reply = NoReply
    /\ counters = 0
    /\ counter_cache = 0
    /\ vlan = NoVlan

NextCli ==
    \/ Next
    \/ \E i \in {E1_1, E1_2} : SetBreakoutDelete(i)
    \/ OperCb
    \/ OperCbReturns

SpecCli == InitCli /\ [][NextCli]_vars

\* the interface-type check, the breakout detail and the rpc clear-counters
\* alone, on a serving server: a datastore with no breakout, with Ethernet1_1
\* broken out in two or in four, or with its channel count alone, the port
\* map of each in force, and a notification cache that holds a status
IfTypeTrees ==
    {IF b[1] = <<>> THEN EmptyTree
     ELSE [EmptyTree EXCEPT ![E1_1]["num-channels"] = b[1], ![E1_1]["channel-speed"] = b[2]] :
        b \in {<< <<>>, <<>> >>, << <<"2">>, <<"SPEED_50G">> >>,
               << <<"4">>, <<"SPEED_10G">> >>, << <<"4">>, <<>> >>}}

InitRpc ==
    /\ menu = MenuConfigDb
    /\ running \in IfTypeTrees
    /\ portmap = BreakoutMap(running)
    /\ notif_if = [EmptyNotifIf EXCEPT ![E1_1] = "up"]
    /\ ufd = <<>>
    /\ cfgdb = EmptyCfgDb
    /\ bcm = EmptyBcm
    /\ is_rebooting = FALSE
    /\ task_queue = <<>>
    /\ spc = "serving"
    /\ cpc = "sleep"
    /\ runs = <<>>
    /\ exc = NoError
    /\ snap = NoSnap
    /\ tpc = "idle"
    /\ handlers = <<>>
    /\ tidx = 1
    /\ user = EmptyUser
    /\ applied = <<>>
    /\ reverted = <<>>
    /\ writes = <<>>
    /\ result = NoError
    /\ before = NoDriverState
    /\ candidate = EmptyTree
    /\ oper = [i \in AllIf |-> NoVal]
    /\ resolved = <<>>
    /\ notified = NoneNotified
    /\ handled = <<>>
    /\ cli = NoCommand
    /\ reply = NoReply
    /\ counters = 0
    /\ counter_cache = 0
    /\ vlan = NoVlan

NextRpc ==
    \/ \E i \in {E1_1, E1_2, E2_1},
          t \in SINGLE_LANE_INTERFACE_TYPES \cup DOUBLE_LANE_INTERFACE_TYPES
                   \cup QUAD_LANE_INTERFACE_TYPES : ValidateInterfaceType(i, t)
    \/ \E i \in {E1_1, E1_2, E2_1, E9_1} : GetBreakoutDetail(i)
    \/ CountersAdvance
    \/ ClearCounters

SpecRpc == InitRpc /\ [][NextRpc]_vars

\* the VLAN handlers alone, on a serving server: commits of VLAN edits of
\* Ethernet1_1, over a VLAN_MEMBER table that holds nothing or Ethernet2_1 as
\* an untagged member of VLAN 10
InitVlan ==
    /\ menu = MenuConfigDb
    /\ running = EmptyTree
    /\ portmap = EmptyPortmap
    /\ notif_if = EmptyNotifIf
    /\ ufd = <<>>
    /\ cfgdb = EmptyCfgDb
    /\ bcm = EmptyBcm
    /\ is_rebooting = FALSE
    /\ task_queue = <<>>
    /\ spc = "serving"
    /\ cpc = "sleep"
    /\ runs = <<>>
    /\ exc = NoError
    /\ snap = NoSnap
    /\ tpc = "idle"
    /\ handlers = <<>>
    /\ tidx = 1
    /\ user = EmptyUser
    /\ applied = <<>>
    /\ reverted = <<>>
    /\ writes = <<>>
    /\ result = NoError
    /\ before = NoDriverState
    /\ candidate = EmptyTree
    /\ oper = [i \in AllIf |-> NoVal]
    /\ resolved = <<>>
    /\ notified = NoneNotified
    /\ handled = <<>>
    /\ cli = NoCommand
    /\ reply = NoReply
    /\ counters = 0
    /\ counter_cache = 0
    /\ vlan \in {NoVlan, [NoVlan EXCEPT !.member[E2_1]["10"] = "untagged"]}

NextVlan ==
    \/ \E S \in VlanEditSets : VlanCommit(S)
    \/ VlanApply

SpecVlan == InitVlan /\ [][NextVlan]_vars

\* the server with the CLI: the client of the run edits the admin-status of
\* Ethernet1_1, the CLI gives breakout and auto-negotiate commands on
\* Ethernet1_1 and Ethernet1_2 and shows the running configuration; the
\* datastore holds nothing, or auto-negotiation of Ethernet1_1 set to false
\* or to true
ShellTrees ==
    {EmptyTree, [EmptyTree EXCEPT ![E1_1]["enabled"] = <<"false">>],
     [EmptyTree EXCEPT ![E1_1]["enabled"] = <<"true">>]}

InitShell ==
    /\ menu = {<<E1_1, "admin-status">>}
    /\ running \in ShellTrees
    /\ ufd = <<>>
    /\ cfgdb = EmptyCfgDb
    /\ bcm = EmptyBcm
    /\ portmap = EmptyPortmap
    /\ is_rebooting = FALSE
    /\ task_queue = <<>>
    /\ spc = "new"
    /\ cpc = "off"
    /\ runs = <<>>
    /\ exc = NoError
    /\ snap = NoSnap
    /\ tpc = "idle"
    /\ handlers = <<>>
    /\ tidx = 1
    /\ user = EmptyUser
    /\ applied = <<>>
    /\ reverted = <<>>
    /\ writes = <<>>
    /\ result = NoError
    /\ before = NoDriverState
    /\ candidate = EmptyTree
    /\ oper = [i \in AllIf |-> NoVal]
    /\ resolved = <<>>
    /\ notif_if = EmptyNotifIf
    /\ notified = NoneNotified
    /\ handled = <<>>
    /\ cli = NoCommand
    /\ reply = NoReply
    /\ counters = 0
    /\ counter_cache = 0
    /\ vlan = NoVlan

NextShell ==
    \/ Next
    \/ \E i \in {E1_1, E1_2}, line \in BreakoutLines : BreakoutCommandExec(i, line)
    \/ \E root \in {"", "no"}, line \in AutoNegoLines : AutoNegoCommandExec(E1_1, root, line)
    \/ ShowRunningConfig(E1_1)

SpecShell == InitShell /\ [][NextShell]_vars

\* the static MACsec key command alone, on a serving server: the user has
\* written a key in the context of Ethernet1_1
InitKey ==
    /\ menu = MenuConfigDb
    /\ running = EmptyTree
    /\ ufd = <<>>
    /\ cfgdb = EmptyCfgDb
    /\ bcm = EmptyBcm
    /\ portmap = EmptyPortmap
    /\ is_rebooting = FALSE
    /\ task_queue = <<>>
    /\ spc = "serving"
    /\ cpc = "sleep"
    /\ runs = <<>>
    /\ exc = NoError
    /\ snap = NoSnap
    /\ tpc = "idle"
    /\ handlers = <<>>
    /\ tidx = 1
    /\ user = EmptyUser
    /\ applied = <<>>
    /\ reverted = <<>>
    /\ writes = <<>>
    /\ result = NoError
    /\ before = NoDriverState
    /\ candidate = EmptyTree
    /\ oper = [i \in AllIf |-> NoVal]
    /\ resolved = <<>>
    /\ notif_if = EmptyNotifIf
    /\ notified = NoneNotified
    /\ handled = <<>>
    /\ cli \in {[cmd |-> "", ifname |-> E1_1, choice |-> c] : c \in KeyChoices}
    /\ reply = NoReply
    /\ counters = 0
    /\ counter_cache = 0
    /\ vlan = NoVlan

NextKey ==
    \/ StaticMACSECCommandExec
    \/ StaticMACSECToCommand

SpecKey == InitKey /\ [][NextKey]_vars

\* the notification loop alone: a UFD group with uplink Ethernet1_1 and
\* downlink Ethernet1_2 or no group, every raw status of the two
NotifyIf == {E1_1, E1_2}
NotifyUfd == {<<>>, <<[uplink |-> <<E1_1>>, downlink |-> <<E1_2>>]>>}

InitNotify ==
    /\ InitOper
    /\ ufd \in NotifyUfd
    /\ \A i \in AllIf \ NotifyIf : oper[i] = NoVal

NextNotify ==
    \/ \E i \in NotifyIf : EventHandler(i)
    \/ \E i \in NotifyIf, st \in RawStatus : LinkChange(i, st)

SpecNotify == InitNotify /\ [][NextNotify]_vars

\* the notification loop with a feed that goes on giving messages for each
\* interface and a loop that goes on taking them: "async for msg" handles
\* every message the feed gives
SpecNotifyLive ==
    /\ InitNotify
    /\ [][NextNotify]_vars
    /\ \A i \in NotifyIf : WF_vars(EventHandler(i))

----------------------------------------------------------------------------
(* The claims *)

\* some handler of the batch in flight fails to construct or to validate
AnyInvalid ==
    \E k \in 1..Len(handlers) :
        \/ IfChangeHandlerInit(handlers[k], before.portmap) # NoError
        \/ Validate(handlers[k], candidate, ufd) # NoError

\* the driver holds what it held when the batch in flight arrived
DriverUntouched ==
    /\ cfgdb = before.cfgdb
    /\ bcm = before.bcm
    /\ portmap = before.portmap
    /\ Len(task_queue) = before.queued

\* C1: when a handler of a batch fails validation, no handler of the batch is
\* applied and the driver sees no write: no config-DB set, no vendor command,
\* no port-map update, no reconcile queued.
ValidateFailureIsAtomic ==
    (tpc # "idle" /\ AnyInvalid) =>
        /\ applied = <<>>
        /\ writes = <<>>
        /\ DriverUntouched

\* a batch refused in validation whose first handler is valid and would write
ValidateFailureWitness ==
    /\ tpc = "done"
    /\ AnyInvalid
    /\ Len(handlers) >= 2
    /\ CallsOut(handlers[1])
    /\ Validate(handlers[1], candidate, ufd) = NoError
    /\ IfChangeHandlerInit(handlers[1], before.portmap) = NoError

\* C2: once an apply failure is surfaced, the config DB and the vendor
\* settings hold what they held before the batch.
ApplyFailureIsCompensated ==
    (tpc = "done" /\ result.cls = "ApplyFailure") =>
        /\ cfgdb = before.cfgdb
        /\ bcm = before.bcm

\* C3: when the apply of handler k fails, revert has been called on the
\* handlers k-1 .. 1, in that order, each once, and on no other handler; a
\* batch without an apply failure reverts nothing.
RevertInReverseOrder ==
    /\ (tpc = "done" /\ result.cls = "ApplyFailure") =>
          /\ applied = [k \in 1..(tidx - 1) |-> k]
          /\ reverted = [k \in 1..(tidx - 1) |-> tidx - k]
    /\ result.cls # "ApplyFailure" => reverted = <<>>

\* the third handler of a batch has failed, after two applies
RevertWitness ==
    /\ tpc = "done"
    /\ result.cls = "ApplyFailure"
    /\ tidx = 3
    /\ reverted = <<2, 1>>

\* C4: a batch that arrives while is_rebooting is set is refused by pre with
\* a LockedError: no handler is constructed, nothing is validated or applied.
LockedBatchIsRejected ==
    (tpc # "idle" /\ before.is_rebooting) =>
        /\ tpc = "done"
        /\ result.cls = "LockedError"
        /\ handlers = <<>>
        /\ applied = <<>>
        /\ writes = <<>>
        /\ ~user.cache

\* a batch has been refused while the forwarding plane restarts
LockedBatchWitness ==
    /\ tpc = "done"
    /\ before.is_rebooting
    /\ result.cls = "LockedError"
    /\ \E r \in 1..Len(runs) : runs[r].pc = "wait"

\* C5: a batch that arrives while a reconcile is queued or running is refused
\* by pre, from the moment post queues the reconcile to the end of the run.
ReconcilePendingRejectsCommits ==
    (tpc # "idle" /\ before.pending) =>
        /\ result.cls = "LockedError"
        /\ handlers = <<>>

\* a batch has been refused between the queueing of a reconcile and its start
ReconcilePendingWitness ==
    /\ tpc = "done"
    /\ before.queued > 0
    /\ runs = <<>>
    /\ result.cls = "LockedError"

\* C6: a reconcile run that fails leaves the serving process running and not
\* busy: the task loop lives on, and the busy flag is set only while a
\* reconcile is queued or running, so that a later commit is accepted.
ReconcileFailureRecovers ==
    spc = "serving" =>
        /\ cpc # "dead"
        /\ (runs = <<>> /\ task_queue = <<>>) => ~is_rebooting

\* C7: at most one reconcile run is started and unfinished, and while one is,
\* the task loop is not at its queue: a queued request waits for the run.
ReconcileRunsSerialized ==
    /\ Len(runs) <= 1
    /\ runs # <<>> => ~handle_tasks_polls

\* a run taken from the queue is suspended in its wait for ready
ReconcileRunWitness ==
    /\ Len(runs) = 1
    /\ runs[1].by = "task"
    /\ runs[1].pc = "wait"

\* C8: a batch that set update-sonic has, when its post is over, pushed no
\* advertised speed and queued one reconcile.
ResyncSkipsDeferredActions ==
    (tpc = "done" /\ result.msg = "ok" /\ user.update_sonic) =>
        /\ \A k \in 1..Len(writes) :
              ~(writes[k].op = "run_bcmcmd_port" /\ writes[k].key = "adv")
        /\ Cardinality({k \in 1..Len(writes) : writes[k].op = "reconcile"}) = 1

\* a batch with a breakout change and an advertised-speed change is over
ResyncSkipsWitness ==
    /\ tpc = "done"
    /\ result.msg = "ok"
    /\ user.update_sonic
    /\ user.needs_adv_speed_config # {}

\* the UFD groups the interface is a downlink of
MemberGroups(ifname) == {g \in 1..Len(ufd) : InSeq(ifname, ufd[g].downlink)}

AllUplinksDown(g) == \A k \in 1..Len(ufd[g].uplink) : oper[ufd[g].uplink[k]] = "down"

\* C9: for a downlink of a UFD group with uplinks, the status read is DORMANT
\* exactly when every uplink of the group is raw "down", and is the
\* interface's own raw status when some uplink is not.
DormantIffAllUplinksDown ==
    resolved # <<>> =>
        \A g \in MemberGroups(resolved[1]) :
            (Cardinality(MemberGroups(resolved[1])) = 1 /\ ufd[g].uplink # <<>>) =>
                /\ (resolved[2] = "DORMANT") <=> AllUplinksDown(g)
                /\ ~AllUplinksDown(g) => resolved[2] = Upper(oper[resolved[1]])

\* C10: the status read is one of UP, DOWN, DORMANT, UNKNOWN whatever the raw
\* status, an absent one included, and is the raw status in upper case when
\* it is not DORMANT.
ResolveIsTotal ==
    resolved # <<>> =>
        /\ resolved[2] \in {"UP", "DOWN", "DORMANT", "UNKNOWN"}
        /\ (resolved[2] # "DORMANT" /\ oper[resolved[1]] # NoVal) =>
              resolved[2] = Upper(oper[resolved[1]])

\* the status the resolver gives for the interface of the last feed message
HandledStatus == get_oper_status(handled.ifname, oper, ufd)

\* C11: a feed message whose resolved status is the one last notified for the
\* interface sends nothing, and a notification never carries the oper-status
\* of the notification sent before it for the same interface.
NotificationsAreDeduplicated ==
    handled # <<>> =>
        /\ HandledStatus = handled.prev => handled.sent = <<>>
        /\ handled.sent # <<>> => handled.sent[1].status # handled.prev

\* C12: a feed message whose recomputed status differs from the status kept
\* for the interface sends exactly one notification {interface, new status}
\* and the kept status becomes the new one; otherwise nothing is sent and the
\* kept status is unchanged. The kept status is compared in upper case, and
\* only the messages of an interface whose raw status is present are taken.
FeedMessageEmitsOnChange ==
    (handled # <<>> /\ oper[handled.ifname] # NoVal) =>
        IF HandledStatus # Upper(handled.curr)
        THEN /\ handled.sent = <<Notification(handled.ifname, HandledStatus)>>
             /\ Upper(notif_if[handled.ifname]) = HandledStatus
        ELSE /\ handled.sent = <<>>
             /\ notif_if[handled.ifname] = handled.curr

\* whether a run has made the call op
Logged(log, op) == \E k \in 1..Len(log) : log[k].op = op

\* the positions in log of the calls for ifname with a key of keys
Calls(log, ifname, keys) ==
    {k \in 1..Len(log) : log[k].ifname = ifname /\ log[k].key \in keys}

\* C13: a run restarts the forwarding plane and waits for ready exactly when
\* the port map derived from the breakout configuration differs from the one
\* in force; when it does not, nothing restarts and the counters are
\* snapshotted instead.
RestartIffPortMapDiffers ==
    [][\A r \in 1..Len(runs) :
          (runs[r].pc = "begin" /\ Len(runs') = Len(runs) /\ runs'[r].pc # "begin") =>
              LET differs == portmap # BreakoutMap(running)
              IN  /\ differs <=> Logged(runs'[r].log, "restart")
                  /\ differs <=> runs'[r].pc = "wait"
                  /\ differs <=> ~Logged(runs'[r].log, "cache_counters")]_vars

\* a run has restarted the forwarding plane and waits for it
RestartWitness ==
    \E r \in 1..Len(runs) :
        /\ runs[r].pc = "wait"
        /\ Logged(runs[r].log, "restart")
        /\ ~Logged(runs[r].log, "cache_counters")

\* C14: a second reconcile run with no configuration change in between ends
\* with the config DB and the vendor settings the first run left, and does
\* not restart the forwarding plane.
ReconcileIsIdempotent ==
    /\ \A r \in 1..Len(runs) :
          (runs[r].by = "again" /\ runs[r].pc = "hooks") =>
              /\ cfgdb = snap.cfgdb
              /\ bcm = snap.bcm
              /\ ~Logged(runs[r].log, "restart")
    /\ spc = "twice" => (cfgdb = snap.cfgdb /\ bcm = snap.bcm)

\* a second run has returned, of a configuration with a speed, advertised
\* speeds and a breakout
ReconcileTwiceWitness ==
    /\ spc = "twice"
    /\ running[E1_1]["speed"] # <<>>
    /\ running[E1_1]["advertised-speeds"] # <<>>
    /\ running[E1_1]["num-channels"] # <<>>

\* C15: in a run, the hook of a cooperating server is called only once every
\* known interface has been pushed, each hook once, and the busy flag stays
\* set until the last hook has returned.
HooksFollowPushes ==
    \A r \in 1..Len(runs) :
        LET log == runs[r].log
            hooks == {k \in 1..Len(log) : log[k].op = "reconcile"}
        IN  /\ \A h \in hooks :
                  /\ \A n \in get_ifnames(portmap) :
                        \E k \in 1..(h - 1) :
                            log[k].ifname = n /\ log[k].key = "admin-status"
                  /\ \A k \in (h + 1)..Len(log) : log[k].op = "reconcile"
            /\ \A h, g \in hooks : log[h].key = log[g].key => h = g
            /\ (runs[r].pc = "hooks" /\ runs[r].todo = <<>>) =>
                  \A s \in 1..Len(Servers) : \E h \in hooks : log[h].key = Servers[s]
            /\ runs[r].pc # "begin" => is_rebooting

\* every hook of a run has returned, the flag not yet cleared
HooksWitness ==
    \E r \in 1..Len(runs) :
        /\ runs[r].pc = "hooks"
        /\ runs[r].todo = <<>>
        /\ Len(Servers) >= 2
        /\ is_rebooting

\* C16: an attribute reconcile has no branch for is logged and skipped: the
\* run never raises because of it, and a run that has pushed every interface
\* has logged each such attribute of the configuration.
UnrecognizedIsSkipped ==
    /\ exc.cls # "KeyError"
    /\ \A r \in 1..Len(runs) :
          runs[r].pc = "hooks" =>
              \A n \in get_ifnames(portmap), l \in OtherLeaves :
                  running[n][l] # <<>> =>
                      \E k \in 1..Len(runs[r].log) :
                          /\ runs[r].log[k].op = "warn"
                          /\ runs[r].log[k].ifname = n
                          /\ runs[r].log[k].key = l

\* the value the configuration gives a leaf: the one set, else the schema's
Expected(ifname, leaf) ==
    IF running[ifname][leaf] # <<>> THEN running[ifname][leaf][1]
    ELSE SchemaDefault(leaf)

FirstUnknown ==
    /\ handlers # <<>>
    /\ IfChangeHandlerInit(handlers[1], before.portmap) # NoError

\* C18: a batch whose first change event names an unknown interface fails at
\* the construction of the handler, before any validate or apply, with an
\* error of another kind than the InvalArgError of a validation failure.
UnknownInterfaceIsDistinct ==
    (tpc # "idle" /\ ~before.is_rebooting /\ FirstUnknown) =>
        /\ tpc = "done"
        /\ applied = <<>>
        /\ writes = <<>>
        /\ ~user.cache
        /\ result.cls # "InvalArgError"

\* the leaves of the breakout configuration
BreakoutLeaves == {"num-channels", "channel-speed"}

\* the batch in flight creates or modifies breakout configuration on an
\* interface that is not the first channel of its port
SetsSubBreakout ==
    \E k \in 1..Len(handlers) :
        /\ handlers[k].leaf \in BreakoutLeaves
        /\ handlers[k].type \in {"created", "modified"}
        /\ ~EndsWith(handlers[k].ifname, <<"_", "1">>)

\* C19: a batch that creates or modifies breakout configuration on an
\* interface other than a "_1" one is rejected with nothing applied, and the
\* running configuration holds breakout leaves on "_1" interfaces only.
BreakoutOnPrimaryOnly ==
    /\ (tpc # "idle" /\ SetsSubBreakout) =>
          /\ tpc = "done"
          /\ result.cls # ""
          /\ applied = <<>>
    /\ \A i \in DsIf, l \in BreakoutLeaves :
          running[i][l] # <<>> => EndsWith(i, <<"_", "1">>)

\* BreakoutHandler.validate has refused a complete breakout configuration of
\* the known sub-interface Ethernet1_2
SubBreakoutWitness ==
    /\ tpc = "done"
    /\ SetsSubBreakout
    /\ E1_2 \in get_ifnames(before.portmap)
    /\ candidate[E1_2]["num-channels"] # <<>>
    /\ candidate[E1_2]["channel-speed"] # <<>>
    /\ result.msg = "breakout cannot be configured on a sub-interface"

\* C20: in the running configuration every interface has both num-channels
\* and channel-speed or neither, and a batch that leads to a tree with one of
\* the two alone is rejected, be the leaf created, modified or deleted.
BreakoutIsPaired ==
    /\ \A i \in DsIf :
          (running[i]["num-channels"] = <<>>) <=> (running[i]["channel-speed"] = <<>>)
    /\ (tpc # "idle" /\ handlers # <<>> /\
        \E i \in DsIf : (candidate[i]["num-channels"] = <<>>)
                            # (candidate[i]["channel-speed"] = <<>>)) =>
          /\ tpc = "done"
          /\ result.cls # ""

\* the batch in flight creates or modifies breakout configuration on an
\* interface that is an uplink or a downlink of a UFD group
SetsUfdBreakout ==
    \E k \in 1..Len(handlers) :
        /\ handlers[k].leaf \in BreakoutLeaves
        /\ handlers[k].type \in {"created", "modified"}
        /\ is_ufd_port(handlers[k].ifname, ufd)

\* C21: a batch that creates or modifies breakout configuration on a member
\* of a UFD group is refused in validation, nothing applied and nothing
\* written, and the running configuration holds no breakout leaf on a member
\* of a UFD group.
BreakoutExcludesUfd ==
    /\ (tpc # "idle" /\ SetsUfdBreakout) =>
          /\ tpc = "done"
          /\ result.cls # ""
          /\ applied = <<>>
          /\ writes = <<>>
    /\ \A i \in DsIf, l \in BreakoutLeaves :
          running[i][l] # <<>> => ~is_ufd_port(i, ufd)

\* BreakoutHandler.validate has refused a complete breakout configuration of
\* Ethernet1_1, a downlink of a UFD group
UfdBreakoutWitness ==
    /\ tpc = "done"
    /\ SetsUfdBreakout
    /\ is_downlink_port(E1_1, ufd).downlink
    /\ candidate[E1_1]["num-channels"] # <<>>
    /\ candidate[E1_1]["channel-speed"] # <<>>
    /\ result.msg = "Breakout cannot be configured on the interface that is part of UFD"

SubInterfaces(ifname, pm) ==
    {n \in get_ifnames(pm) : n[2] = ifname[2] /\ n # ifname}

\* C23: the CLI's removal of the breakout of a parent interface deletes the
\* configuration of the parent and of each sub-interface of its port; once
\* the removal is committed and the resync it caused is over, a read of every
\* interface lists none of those sub-interfaces; a removal on a parent that
\* holds no breakout configuration commits nothing and gives no error.
BreakoutRemovalCascades ==
    /\ (cli.cmd = "no breakout" /\ cli.error = "" /\ cli.config /\ tpc # "idle") =>
          \A n \in {cli.ifname} \cup SubInterfaces(cli.ifname, before.portmap) :
              candidate[n] = EmptyIfCfg
    /\ (/\ cli.cmd = "no breakout" /\ cli.error = "" /\ cli.config
        /\ tpc = "idle" /\ running[cli.ifname] = EmptyIfCfg
        /\ runs = <<>> /\ task_queue = <<>> /\ ~is_rebooting) =>
          \A n \in cli.deleted \ {cli.ifname} :
              /\ running[n] = EmptyIfCfg
              /\ \A k \in 1..Len(OperInterfaces(portmap)) :
                    OperInterfaces(portmap)[k].name # n
    /\ (cli.cmd = "no breakout" /\ cli.error = "" /\ ~cli.config) =>
          /\ cli.deleted = {}
          /\ tpc = "idle"

\* the breakout of Ethernet1_1 has been removed with the configuration of
\* Ethernet1_2, the resync is over and Ethernet1_2 is no interface any more
BreakoutRemovalWitness ==
    /\ cli.cmd = "no breakout"
    /\ cli.deleted = {E1_1, E1_2}
    /\ tpc = "idle"
    /\ running[E1_1] = EmptyIfCfg
    /\ runs = <<>>
    /\ task_queue = <<>>
    /\ ~is_rebooting
    /\ cfgdb[E1_2]["admin-status"] = "DOWN"
    /\ E1_2 \notin get_ifnames(portmap)

\* the handlers of the batch in flight that set a speed on a known interface
\* other than the first channel of its port
SubInterfaceSpeeds ==
    {k \in 1..Len(handlers) :
        /\ handlers[k].leaf = "speed"
        /\ handlers[k].type \in {"created", "modified"}
        /\ ~EndsWith(handlers[k].ifname, <<"_", "1">>)
        /\ handlers[k].ifname \in get_ifnames(before.portmap)}

\* C24: a batch that sets a speed on a sub-interface other than the first of
\* its port is refused with an InvalArgError, nothing applied, the config DB,
\* the vendor settings, the port map and the task queue as they were, and
\* the error names the interface and the candidate speeds.
SubInterfaceSpeedIsRefused ==
    (tpc # "idle" /\ SubInterfaceSpeeds # {}) =>
        /\ tpc = "done"
        /\ result.cls = "InvalArgError"
        /\ applied = <<>>
        /\ writes = <<>>
        /\ DriverUntouched
        /\ \A k \in SubInterfaceSpeeds :
              /\ "candidates" \in DOMAIN SpeedErrorMessage(handlers[k])
              /\ "ifname" \in DOMAIN SpeedErrorMessage(handlers[k])

\* the handlers of the batch in flight bound to advertised-speeds
AdvHandlers == {k \in 1..Len(handlers) : handlers[k].leaf = "advertised-speeds"}

\* the advertised-speed pushes the batch in flight has made for ifname
AdvPushes(ifname) ==
    {k \in 1..Len(writes) :
        /\ writes[k].op = "run_bcmcmd_port"
        /\ writes[k].key = "adv"
        /\ writes[k].ifname = ifname}

\* C25: while the handlers of a batch are applied, those of advertised-speeds
\* make no external call: each applied one has put its interface in the
\* context, and the calls made are those of the other handlers. When the
\* batch has succeeded without a resync, post has pushed the advertised
\* speeds once for each interface of the context, whatever the number of its
\* events, with the list the batch leads to, empty when the list is removed.
AdvSpeedsAreDeferred ==
    /\ tpc \in {"apply", "post"} =>
          /\ \A i \in AllIf : AdvPushes(i) = {}
          /\ \A j \in 1..Len(applied) :
                applied[j] \in AdvHandlers =>
                    handlers[applied[j]].ifname \in user.needs_adv_speed_config
          /\ Len(writes) = Cardinality({j \in 1..Len(applied) : CallsOut(handlers[applied[j]])})
    /\ (tpc = "done" /\ result.msg = "ok" /\ ~user.update_sonic) =>
          /\ user.needs_adv_speed_config = {handlers[k].ifname : k \in AdvHandlers}
          /\ \A i \in AllIf :
                IF i \in user.needs_adv_speed_config
                THEN /\ Cardinality(AdvPushes(i)) = 1
                     /\ \A k \in AdvPushes(i) :
                           writes[k].value = JoinSpeeds(candidate[i]["advertised-speeds"])
                     /\ bcm[i]["adv"] = JoinSpeeds(candidate[i]["advertised-speeds"])
                ELSE AdvPushes(i) = {}

\* a batch that removes a list of two advertised speeds, two events, has
\* ended with one push of the empty list
AdvSpeedsWitness ==
    /\ tpc = "done"
    /\ result.msg = "ok"
    /\ ~user.update_sonic
    /\ Cardinality(AdvHandlers) = 2
    /\ Cardinality(AdvPushes(E1_1)) = 1
    /\ bcm[E1_1]["adv"] = <<>>

\* C26: a clear-counters call changes nothing but the baseline of the
\* counters, which becomes the current counters; called again with the
\* counters unchanged it leaves the baseline as it is.
ClearCountersIsIdempotent ==
    [][(reply'.op = "clear_counters" /\ reply' # reply) =>
          /\ counter_cache' = cache_counters(counters)
          /\ reply'.again => counter_cache' = counter_cache
          /\ UNCHANGED <<menu, running, drvVars, recVars, txnVars, operVars, cli, counters>>]_vars

\* clear-counters has been called twice in a row on counters that have moved
ClearCountersWitness ==
    /\ reply.op = "clear_counters"
    /\ reply.again
    /\ counters > 0
    /\ counter_cache = counters
    /\ reply.prev = counter_cache

\* C27: after any sequence of commits, reconcile runs and startup, at most
\* one reconcile is queued and not yet started.
TaskQueueHoldsAtMostOne == Len(task_queue) <= 1

\* the run of startup is over, a commit has queued a reconcile and the task
\* loop, at its poll, has not started it yet
TaskQueueWitness ==
    /\ task_queue = <<"reconcile">>
    /\ tpc = "done"
    /\ result.msg = "ok"
    /\ is_rebooting
    /\ runs = <<>>
    /\ handle_tasks_polls

\* the breakout detail of the interface that configures it, none without a
\* breakout in several channels
DetailOfBreakout(ifname, tree) ==
    IF /\ ifname \in DOMAIN tree
       /\ tree[ifname]["num-channels"] # <<>>
       /\ tree[ifname]["channel-speed"] # <<>>
       /\ IntOf(tree[ifname]["num-channels"][1]) > 1
    THEN <<[numch |-> tree[ifname]["num-channels"][1],
            speed |-> tree[ifname]["channel-speed"][1]]>>
    ELSE <<>>

\* C28: the lookup of the breakout detail fails for no interface name, and
\* for a name that does not end in "_1" it returns the detail of the parent,
\* the name without its channel suffix plus "_1", or none if the parent has
\* none.
BreakoutDetailOfParent ==
    reply.op = "get_breakout_detail" =>
        /\ reply.answer.error = NoError
        /\ reply.ifname[Len(reply.ifname)] # "1" =>
              reply.answer.detail =
                  DetailOfBreakout(ParentOf(reply.ifname), running)

\* C29: a read of the operational state made while the flag is set fails
\* with a CallbackFailedError and returns no interface, and no read returns
\* state it has read while a reconcile run was in progress.
OperReadSeesNoReconcile ==
    reply.op = "oper_cb" =>
        /\ reply.rebooting =>
              /\ reply.error.cls = "CallbackFailedError"
              /\ reply.interfaces = <<>>
        /\ (reply.pc = "done" /\ reply.error = NoError) => ~reply.during

\* the statuses a read of an interface resolves to
ResolvedStatuses == {Upper(st) : st \in RawStatus \ {NoVal}} \cup {"DORMANT"}

\* C30: whenever the resolved status of an interface has come to differ from
\* the last status notified for it, as when the last uplink of its UFD group
\* goes down or one comes back up, a notification with that status is
\* eventually sent for it unless the status changes again first: the last
\* notified status comes to equal what an on-demand read reports.
ResolvedStatusIsNotified ==
    \A i \in NotifyIf : \A s \in ResolvedStatuses :
        (get_oper_status(i, oper, ufd) = s /\ notified[i] # s)
            ~> (notified[i] = s \/ get_oper_status(i, oper, ufd) # s)

\* the auto-negotiation setting the schema default of "enabled" stands for
DefaultAn == IF SchemaDefault("enabled") = "true" THEN "yes" ELSE "no"

\* the handlers of the batch in flight that are applied and delete "enabled"
AppliedEnabledDeletes ==
    {applied[j] : j \in {k \in 1..Len(applied) :
        /\ handlers[applied[k]].leaf = "enabled"
        /\ handlers[applied[k]].type = "deleted"}}

ConfigDbApplyWritesItsField ==
    [][(/\ tpc = "apply"
        /\ applied' = Append(applied, tidx)
        /\ handlers[tidx].leaf \in {"admin-status", "mtu", "fec"}) =>
          LET h == handlers[tidx]
              value == IF h.type \in {"created", "modified"} THEN h.value
                       ELSE SchemaDefault(h.leaf)
          IN  /\ cfgdb'[h.ifname][h.leaf] = value
              /\ \A i \in AllIf, k \in CfgKeys :
                    (i # h.ifname \/ k # h.leaf) => cfgdb'[i][k] = cfgdb[i][k]
              /\ bcm' = bcm
              /\ portmap' = portmap
              /\ task_queue' = task_queue
              /\ Len(writes') = Len(writes) + 1]_vars

\* the handler of a deleted mtu has put the default where the run of
\* startup had pushed the configured value
ConfigDbApplyWitness ==
    /\ tpc \in {"apply", "post"}
    /\ \E j \in 1..Len(applied) :
          /\ handlers[applied[j]].leaf = "mtu"
          /\ handlers[applied[j]].type = "deleted"
          /\ handlers[applied[j]].ifname = E1_1
    /\ before.cfgdb[E1_1]["mtu"] = "1500"
    /\ cfgdb[E1_1]["mtu"] = SchemaDefault("mtu")
    /\ cfgdb[E2_1]["mtu"] = before.cfgdb[E2_1]["mtu"]

\* the VLANs an interface is a member of with a tagging mode
MemberOf(member, ifname, mode) == {v \in Vids : member[ifname][v] = mode}

\* C33 as stated: after the apply of an access-vlan event the interface is an
\* untagged member of the new access VLAN alone for a created or modified
\* event and of no VLAN for a deleted one, and its tagged memberships are the
\* ones it had.
AccessVlanIsTheOnlyUntagged ==
    [][(/\ vlan.pc = "apply"
        /\ vlan'.idx = vlan.idx + 1
        /\ vlan.events[vlan.idx].leaf = "access-vlan") =>
          LET ev == vlan.events[vlan.idx]
          IN  /\ MemberOf(vlan'.member, ev.ifname, "untagged") =
                    (IF ev.type \in {"created", "modified"} THEN {ev.value} ELSE {})
              /\ MemberOf(vlan'.member, ev.ifname, "tagged") =
                    MemberOf(vlan.member, ev.ifname, "tagged")]_vars

\* C33, amended: after the apply of an access-vlan event the interface is an
\* untagged member of the new access VLAN alone for a created or modified
\* event and of no VLAN for a deleted one; its tagged memberships are the
\* ones it had in the VLANs other than the new access VLAN, and the
\* memberships of the other interfaces are the ones they had.
AccessVlanReplacesUntagged ==
    [][(/\ vlan.pc = "apply"
        /\ vlan'.idx = vlan.idx + 1
        /\ vlan.events[vlan.idx].leaf = "access-vlan") =>
          LET ev == vlan.events[vlan.idx]
              new == IF ev.type \in {"created", "modified"} THEN {ev.value} ELSE {}
          IN  /\ MemberOf(vlan'.member, ev.ifname, "untagged") = new
              /\ MemberOf(vlan'.member, ev.ifname, "tagged") =
                    MemberOf(vlan.member, ev.ifname, "tagged") \ new
              /\ \A i \in VlanIfs \ {ev.ifname} : vlan'.member[i] = vlan.member[i]]_vars

\* the access VLAN of Ethernet1_1 has been changed to VLAN 20: the interface
\* has left VLAN 10, of which Ethernet2_1 still is an untagged member
AccessVlanWitness ==
    /\ vlan.idx > 1
    /\ vlan.idx - 1 <= Len(vlan.events)
    /\ vlan.events[vlan.idx - 1] = ChangeEvent(E1_1, "access-vlan", "modified", "20")
    /\ vlan.member[E1_1]["20"] = "untagged"
    /\ vlan.member[E1_1]["10"] = NoVal
    /\ vlan.member[E2_1]["10"] = "untagged"

\* a switched-vlan configuration whose access-vlan or trunk-vlans go without
\* the interface-mode they belong to
VlanInconsistent(config) ==
    \/ config["access-vlan"] # <<>> /\ config["interface-mode"] # <<"ACCESS">>
    \/ config["trunk-vlans"] # <<>> /\ config["interface-mode"] # <<"TRUNK">>

\* C34: a batch whose post-change tree has interface-mode TRUNK with an
\* access-vlan, interface-mode ACCESS with trunk-vlans, or access-vlan or
\* trunk-vlans without interface-mode is refused with an InvalArgError, so
\* that the committed configuration of an interface never has access-vlan or
\* trunk-vlans without the interface-mode they belong to.
VlanModeIsConsistent ==
    /\ (vlan.events # <<>> /\ VlanInconsistent(vlan.candidate)) =>
          vlan.error.cls = "InvalArgError"
    /\ ~VlanInconsistent(vlan.config)

\* the interface types of as many lanes as a port of numch channels gives to
\* each channel
LaneTypesOf(numch) ==
    CASE numch = 1 -> QUAD_LANE_INTERFACE_TYPES
      [] numch = 2 -> DOUBLE_LANE_INTERFACE_TYPES
      [] numch = 4 -> SINGLE_LANE_INTERFACE_TYPES
      [] OTHER -> {}

\* the number of channels of the port of an interface: that of the breakout
\* of its first channel, 1 without one
ChannelsOf(ifname, tree) ==
    LET detail == DetailOfBreakout(ParentOf(ifname), tree)
    IN  IF detail = <<>> THEN 1 ELSE IntOf(detail[1].numch)

\* C35: the validation of an interface type accepts the type if and only if
\* it has the lanes of one channel of the port: the quad-lane types on a port
\* of no breakout, the double-lane types on one of two channels, the
\* single-lane types on one of four; a sub-interface is judged by the
\* breakout of its first channel, and a type that is not accepted is refused
\* with an InvalArgError.
InterfaceTypeMatchesLanes ==
    reply.op = "validate_interface_type" =>
        /\ (reply.error = NoError) <=>
              (reply.iftype \in LaneTypesOf(ChannelsOf(reply.ifname, running)))
        /\ reply.error # NoError => reply.error.cls = "InvalArgError"

\* the handlers of the batch in flight bound to a created or modified
\* advertised speed that is not a valid speed of its interface, each the
\* first of the batch to be refused
RefusedAdvSpeeds ==
    {k \in AdvHandlers :
        /\ handlers[k].type \in {"created", "modified"}
        /\ speed_yang_to_redis(handlers[k].value) \notin valid_speeds(handlers[k].ifname)
        /\ \A j \in 1..(k - 1) :
              /\ IfChangeHandlerInit(handlers[j], portmap) = NoError
              /\ Validate(handlers[j], candidate, ufd) = NoError
        /\ IfChangeHandlerInit(handlers[k], portmap) = NoError}

\* C36: a batch whose created or modified advertised speed is not a valid
\* speed of its interface, none on a sub-interface and 40G or 100G on a first
\* channel, is refused by the validation with the InvalArgError "Invalid
\* speed" that SpeedHandler raises, and the interface is not recorded for a
\* push of its advertised speeds.
AdvSpeedsInvalidIsInvalArg ==
    (tpc = "done" /\ RefusedAdvSpeeds # {}) =>
        /\ result = Error("InvalArgError", "Invalid speed")
        /\ user.needs_adv_speed_config = {}
        /\ applied = <<>>

\* the channel count of a breakout argument of the form <count>X<speed>,
\* "" of an argument of another form
ChannelCountOf(arg) ==
    IF Len(SplitX(arg)) = 2 /\ SplitX(arg)[1] # <<>> /\ SplitX(arg)[2] # <<>>
    THEN PieceText(SplitX(arg)[1]) ELSE ""

\* C37: the breakout command of the CLI writes a breakout configuration for
\* the arguments it lists alone (2X50G, 2X20G, 4X25G, 4X10G): an argument
\* whose channel count is not 2 or 4, or that is not of the form
\* <count>X<speed>, is refused with InvalidInput and nothing of the datastore
\* is changed.
BreakoutCommandWritesListed ==
    (cli.cmd = "breakout" /\ Len(cli.line) = 1) =>
        /\ cli.edits # {} => cli.line[1] \in BreakoutArguments
        /\ ChannelCountOf(cli.line[1]) \notin {"2", "4"} =>
              /\ cli.error = "InvalidInput"
              /\ cli.edits = {}

\* C38: once "auto-negotiate disable" on an interface is committed, the
\* "enabled" leaf of the interface holds false in the datastore, which "no
\* auto-negotiate" leaves unset, and the running configuration of an
\* interface whose "enabled" is false shows "auto-negotiate disable".
AutoNegoDisableSetsFalse ==
    /\ (/\ cli.cmd = "auto-negotiate"
        /\ cli.error = ""
        /\ IF cli.edits = {} THEN tpc = "idle" ELSE tpc = "done" /\ result.msg = "ok") =>
          running[cli.ifname]["enabled"] =
              IF cli.root = "no" THEN <<>>
              ELSE IF cli.line = <<"disable">> THEN <<"false">> ELSE <<"true">>
    /\ (reply.op = "running-config" /\ reply.enabled = <<"false">>) =>
          \E k \in 1..Len(reply.lines) : reply.lines[k] = "auto-negotiate disable"

\* the number four digits of base 16 stand for
HexHalf(d) ==
    DigitValue(d[1]) * 4096 + DigitValue(d[2]) * 256 + DigitValue(d[3]) * 16
        + DigitValue(d[4])

\* the fields the key of the command was written from
KeyFieldsOf(choice) == [k \in 1..Len(choice) |-> KeyFields[choice[k]]]

\* the key has four fields, each an integer
FourIntegers(choice) ==
    /\ Len(choice) = 4
    /\ \A k \in 1..4 : KeyFieldsOf(choice)[k].value # <<>>

\* the key has four fields, each an unsigned integer of 32 bits
FourUint32(choice) ==
    /\ FourIntegers(choice)
    /\ \A k \in 1..4 : ~KeyFieldsOf(choice)[k].value[1].over

\* 0x00000001,0x00000002,0x00000003,0x00000004
KeyOneToFour ==
    JoinWith([k \in 1..4 |-> <<"0", "x", "0", "0", "0", "0", "0", "0", "0", HexDigits[k + 1]>>],
             ",")

\* C39: a static MACsec key written as four unsigned integers of 32 bits
\* separated by commas is accepted, and the key the command has set is shown
\* as the same four numbers in the same order, each as 0x and eight digits of
\* base 16: 1,2,3,4 is shown as 0x00000001,0x00000002,0x00000003,0x00000004;
\* a text that has not exactly four integer fields gives no key and the
\* command is refused with InvalidInput.
StaticMacsecKeyRoundTrips ==
    cli.cmd = "static-macsec-key" =>
        /\ ~FourIntegers(cli.choice) =>
              /\ cli.key = <<>>
              /\ cli.error = "InvalidInput"
        /\ FourUint32(cli.choice) =>
              /\ cli.key # <<>>
              /\ cli.error = ""
        /\ (FourUint32(cli.choice) /\ reply.op = "static-macsec-key") =>
              LET shown == SplitAt(reply.line, ",")
              IN  /\ Len(shown) = 4
                  /\ \A k \in 1..4 :
                        /\ Len(shown[k]) = 10
                        /\ SubSeq(shown[k], 1, 2) = <<"0", "x">>
                        /\ \A j \in 3..10 : IsDigit(shown[k][j], 16)
                        /\ HexHalf(SubSeq(shown[k], 3, 6)) =
                              KeyFieldsOf(cli.choice)[k].value[1].hi
                        /\ HexHalf(SubSeq(shown[k], 7, 10)) =
                              KeyFieldsOf(cli.choice)[k].value[1].lo
        /\ (cli.choice = <<1, 2, 3, 4>> /\ reply.op = "static-macsec-key") =>
              reply.line = KeyOneToFour

\* the key 1,2,3,4 has been set and is shown as
\* 0x00000001,0x00000002,0x00000003,0x00000004
StaticMacsecKeyWitness ==
    /\ cli.cmd = "static-macsec-key"
    /\ cli.line = << <<"1", ",", "2", ",", "3", ",", "4">> >>
    /\ cli.error = ""
    /\ reply.op = "static-macsec-key"
    /\ reply.key = cli.key
    /\ reply.line = KeyOneToFour

====
